---- MODULE Spec2Model ----
(***************************************************************************)
(* Image sitemap proxy: the slice-based paginated fetch-and-translate      *)
(* pipeline of /image.xml (src/server.js, src/unnamed/part_002).           *)
(*                                                                         *)
(*   Spec       /image.xml requests in flight together over the shared     *)
(*              responseCache; a request runs from one await to the next   *)
(*   SpecHybrid the same for the /image.xml of src/server.js (Storefront   *)
(*              API when a token is configured, no translation lookups)    *)
(*   SpecSlice  one gqlPagedSlice cursor walk over a static catalog        *)
(*   SpecCrawl  a crawler reading page = 1, 2, 3, ... of /image.xml        *)
(*   SpecSF     the Storefront slices sfGetProductsSlice/CollectionsSlice  *)
(*   SpecHydrate  the product branch of one /image.xml request after the   *)
(*              slice is fetched: pMap over the translation lookups, the   *)
(*              merge by entity id and the rendering of the <url> nodes    *)
(***************************************************************************)
EXTENDS Integers, Sequences, FiniteSets, TLC

(* ------------------------------- bounds -------------------------------- *)
MaxCatalog == 3
MaxFirst == 3
MaxOffset == 4
MaxTake == 3
MaxPages == 4
MaxSfExtra == 2
MaxItems == 3
MaxLimit == 2
MaxImages == 1
MaxRequests == 2
MaxSrvProducts == 2
MaxSrvCollections == 1
MaxEpochs == 1
MaxSkew == 1
MaxAltImages == 2
MaxTrs == 3
MaxCalls == 2

(* -------------------------- program constants -------------------------- *)
PRODUCTS_FIRST == 100
COLLECTIONS_FIRST == 200
MAX_URLS_PER_FEED == 5000
MIN_SF_PAGE == 50
MAX_SF_PAGE == 250
TRANS_CONCURRENCY == 8
CACHE_TTL_SECONDS == 900
DEFAULT_PER_PAGE == 200

VARIABLES catalog, walk, crawl, sf, pm, hy, responseCache, now, req, useSF, rs,
          tokenStore

vars ==
  <<catalog, walk, crawl, sf, pm, hy, responseCache, now, req, useSF, rs, tokenStore>>

(* ------------------------------ helpers -------------------------------- *)
Min(a, b) == IF a <= b THEN a ELSE b
Max(a, b) == IF a >= b THEN a ELSE b

\* s.slice(lo, hi) of JavaScript for 0 <= lo, 0 <= hi (0-based, hi exclusive).
JsSlice(s, lo, hi) ==
  LET h == Min(hi, Len(s))
  IN  IF lo >= h THEN <<>> ELSE [i \in 1..(h - lo) |-> s[lo + i]]

RECURSIVE Flatten(_)
Flatten(ss) == IF ss = <<>> THEN <<>> ELSE Head(ss) \o Flatten(Tail(ss))

\* The value parseInt yields for a non-numeric string; every comparison
\* with it is false.
NaN == -999
JsLt(a, b) == a # NaN /\ b # NaN /\ a < b
JsGe(a, b) == a # NaN /\ b # NaN /\ a >= b

(* ------------------------ upstream listing API ------------------------- *)
\* Catalogs: the entities of one resource type in upstream (newest-first)
\* order, each named by its id.
Catalogs ==
  UNION {{c \in [1..n -> 1..n] : \A i, j \in 1..n : i # j => c[i] # c[j]}
         : n \in 0..MaxCatalog}

\* The cursor of an edge is its position in the listing; null is 0.
Edges(cat, after, n) ==
  [i \in 1..n |-> [cursor |-> after + i, node |-> cat[after + i]]]

\* Answers of the listing API to a query (first, after): a non-success
\* status, or a page of at most `first` edges following the cursor with the
\* has-more flag.
ListingResponses(cat, first, after) ==
  LET rem == Len(cat) - after
      sizes == IF rem = 0 THEN {0} ELSE 1..Min(first, rem)
  IN  {[ok |-> FALSE, edges |-> <<>>, hasNextPage |-> FALSE]} \cup
      {[ok |-> TRUE, edges |-> Edges(cat, after, n),
        hasNextPage |-> after + n < Len(cat)] : n \in sizes}

(* ---------------------------- gqlPagedSlice ---------------------------- *)
SkipEdge_inclusive(skipped, offset) == skipped <= offset
SkipEdge(skipped, offset) == JsLt(skipped, offset)

TakeEdge(out, take) == JsLt(Len(out), take)

\* for (const e of edges) { skip | push | break }
RECURSIVE ForEdges(_, _, _, _, _, _)
ForEdges(edges, i, skipped, out, offset, take) ==
  IF i > Len(edges) THEN [skipped |-> skipped, out |-> out]
  ELSE IF SkipEdge(skipped, offset)
       THEN ForEdges(edges, i + 1, skipped + 1, out, offset, take)
  ELSE IF TakeEdge(out, take)
       THEN ForEdges(edges, i + 1, skipped, Append(out, edges[i].node), offset, take)
  ELSE [skipped |-> skipped, out |-> out]

\* let after = null; let skipped = 0; const out = []; while (out.length < take)
StartWalk(first, offset, take) ==
  [pc |-> IF JsLt(0, take) THEN "loop" ELSE "returned",
   first |-> first, offset |-> offset, take |-> take,
   after |-> 0, skipped |-> 0, out |-> <<>>, calls |-> 0, lastOk |-> TRUE]

\* if (!resp.ok) throw new Error(...): the call ends without a value.
NotOk_returnsPartial(w) == [w EXCEPT !.pc = "returned"]
NotOk(w) == [w EXCEPT !.pc = "threw", !.out = <<>>]

\* One iteration of the while loop, given the answer of the listing call.
\* lastOk records the status of the latest answer.
WalkStep(w, resp) ==
  IF ~resp.ok THEN [NotOk(w) EXCEPT !.calls = @ + 1, !.lastOk = FALSE]
  ELSE IF resp.edges = <<>> THEN [w EXCEPT !.pc = "returned", !.calls = @ + 1]
  ELSE
    LET r == ForEdges(resp.edges, 1, w.skipped, w.out, w.offset, w.take)
        stop == ~resp.hasNextPage \/ JsGe(Len(r.out), w.take)
    IN  [w EXCEPT !.calls = @ + 1, !.skipped = r.skipped, !.out = r.out,
                  !.after = IF stop THEN @ ELSE resp.edges[Len(resp.edges)].cursor,
                  !.pc = IF stop \/ ~JsLt(Len(r.out), w.take)
                         THEN "returned" ELSE "loop"]

Firsts == (1..MaxFirst) \cup {PRODUCTS_FIRST, COLLECTIONS_FIRST}

\* timedFetch of the next listing page and the loop body that consumes it.
WalkCall ==
  /\ walk.pc = "loop"
  /\ \E resp \in ListingResponses(catalog, walk.first, walk.after) :
       walk' = WalkStep(walk, resp)
  /\ UNCHANGED <<catalog, crawl, sf, pm, hy, responseCache, now, req, useSF, rs,
               tokenStore>>

NoSf == [pc |-> "none", resource |-> "none", offset |-> 0, limit |-> 0, out |-> <<>>]

NoPMap ==
  [pc |-> "none", items |-> <<>>, limit |-> 0, idx |-> 0, pstat |-> <<>>,
   value |-> <<>>, answer |-> <<>>, firstSettled |-> 0, asked |-> <<>>,
   executing |-> <<>>, spliced |-> {}, race |-> {}]

NoHydrate == [pc |-> "none", rq |-> <<>>, products |-> <<>>, status |-> 0, nodes |-> <<>>]

\* No request is served.
NoResolve == [pc |-> "none"]

NoServer ==
  /\ responseCache = <<>> /\ now = 0 /\ req = <<>> /\ useSF = FALSE
  /\ rs = NoResolve /\ tokenStore = <<>>

NoCrawl == [page |-> 0, perPage |-> 0, docs |-> <<>>]

InitSlice ==
  /\ catalog \in Catalogs
  /\ \E first \in Firsts, offset \in 0..MaxOffset, take \in 1..MaxTake :
       walk = StartWalk(first, offset, take)
  /\ crawl = NoCrawl
  /\ sf = NoSf
  /\ pm = NoPMap
  /\ hy = NoHydrate
  /\ NoServer

NextSlice == WalkCall

SpecSlice == InitSlice /\ [][NextSlice]_vars

(* ------------------------------ page crawl ----------------------------- *)
OffsetOf_nextPage(page, perPage) == page * perPage
\* const offset = (page - 1) * perPage;
OffsetOf(page, perPage) == (page - 1) * perPage

\* A crawler asks for page 1, 2, 3, ... with one per_page; each request
\* fetches the slice (offset, perPage) with the batch size of the resource.
InitCrawl ==
  /\ catalog \in Catalogs
  /\ \E perPage \in 1..MaxTake, first \in Firsts :
       /\ crawl = [page |-> 1, perPage |-> perPage, docs |-> <<>>]
       /\ walk = StartWalk(first, OffsetOf(1, perPage), perPage)
  /\ sf = NoSf
  /\ pm = NoPMap
  /\ hy = NoHydrate
  /\ NoServer

CrawlNext ==
  /\ walk.pc = "returned"
  /\ crawl.page < MaxPages
  /\ crawl' = [crawl EXCEPT !.page = @ + 1, !.docs = Append(@, walk.out)]
  /\ walk' = StartWalk(walk.first, OffsetOf(crawl.page + 1, crawl.perPage),
                       crawl.perPage)
  /\ UNCHANGED <<catalog, sf, pm, hy, responseCache, now, req, useSF, rs,
               tokenStore>>

NextCrawl == WalkCall \/ CrawlNext

SpecCrawl == InitCrawl /\ [][NextCrawl]_vars

(* --------------------------- Storefront API ---------------------------- *)
\* const pageSize = Math.min(Math.max(limit, 50), 250);
SfPageSize(limit) == Min(Max(limit, MIN_SF_PAGE), MAX_SF_PAGE)

\* Answers of the Storefront API to products(first: n) / collections(first: n):
\* a non-success status, or the first n entities of the newest-first listing.
SfResponses(cat, first) ==
  {[ok |-> FALSE, nodes |-> <<>>], [ok |-> TRUE, nodes |-> JsSlice(cat, 0, first)]}

\* sfGraphQL({ first: pageSize + offset }) then nodes.slice(offset, offset + limit)
SfWindow(nodes, offset, limit) == JsSlice(nodes, offset, offset + limit)

SfSlice(s, resp) ==
  IF ~resp.ok THEN [s EXCEPT !.pc = "threw"]
  ELSE [s EXCEPT !.pc = "returned", !.out = SfWindow(resp.nodes, s.offset, s.limit)]

sfGetProductsSlice ==
  /\ sf.pc = "call" /\ sf.resource = "products"
  /\ \E resp \in SfResponses(catalog, SfPageSize(sf.limit) + sf.offset) :
       sf' = SfSlice(sf, resp)
  /\ UNCHANGED <<catalog, walk, crawl, pm, hy, responseCache, now, req, useSF, rs,
               tokenStore>>

sfGetCollectionsSlice ==
  /\ sf.pc = "call" /\ sf.resource = "collections"
  /\ \E resp \in SfResponses(catalog, SfPageSize(sf.limit) + sf.offset) :
       sf' = SfSlice(sf, resp)
  /\ UNCHANGED <<catalog, walk, crawl, pm, hy, responseCache, now, req, useSF, rs,
               tokenStore>>

\* The newest-first listing of n entities, ids n down to 1.
NewestFirst(n) == [i \in 1..n |-> n + 1 - i]

SfSizes == (0..MaxCatalog) \cup {MAX_SF_PAGE + k : k \in 1..MaxSfExtra}

\* perPage as the handler passes it: 1..MAX_URLS_PER_FEED, sampled at the
\* small values, the two clamps of pageSize, just above them and the cap.
SfLimits ==
  (1..MaxTake) \cup {MIN_SF_PAGE, MAX_SF_PAGE, MAX_URLS_PER_FEED}
               \cup {MAX_SF_PAGE + k : k \in 1..MaxSfExtra}

NoWalk == StartWalk(0, 0, 0)

InitSF ==
  /\ \E n \in SfSizes : catalog = NewestFirst(n)
  /\ \E r \in {"products", "collections"}, offset \in 0..MaxOffset, limit \in SfLimits :
       sf = [pc |-> "call", resource |-> r, offset |-> offset, limit |-> limit,
             out |-> <<>>]
  /\ walk = NoWalk
  /\ crawl = NoCrawl
  /\ pm = NoPMap
  /\ hy = NoHydrate
  /\ NoServer

NextSF == sfGetProductsSlice \/ sfGetCollectionsSlice

SpecSF == InitSF /\ [][NextSF]_vars

(* ------------------------------ entities ------------------------------- *)
\* Text is a sequence of tokens; the empty string is <<>>.
Txt(a, n) == <<a, ToString(n)>>

Gid(kind, n) == [kind |-> kind, num |-> n]

\* parts[parts.length - 1] of gid://shopify/<kind>/<num>
numericIdFromGid(gid) == gid.num

\* The i-th image of an entity: a CDN url under /products/ or /files/.
Image(n, i) ==
  [id |-> Gid("ProductImage", 10 * n + i),
   url |-> [origin |-> <<"cdn.shopify.com">>, path |-> 10 * n + i],
   altText |-> <<>>]

Product(n, nimg) ==
  [id |-> Gid("Product", n), title |-> Txt("product", n), handle |-> Txt("handle", n),
   updatedAt |-> n, images |-> [i \in 1..nimg |-> Image(n, i)]]

(* ------------------- translations API (Admin REST) --------------------- *)
TitleTr(p) == [key |-> "title", img |-> 0, value |-> Txt("tr-title", p.id.num)]
WildTr(p) == [key |-> "image.alt_text", img |-> 0, value |-> Txt("tr-alt", p.id.num)]
ImageTr(img) ==
  [key |-> "image[].alt", img |-> numericIdFromGid(img.id),
   value |-> Txt("tr-img", img.id.num)]

\* Lists of (key, value) entries the translations API may hold for a product.
TransLists(p) == {<<>>, <<TitleTr(p)>>, <<WildTr(p), TitleTr(p)>>}

NullTrs == [isNull |-> TRUE, list |-> <<>>]
ListTrs(l) == [isNull |-> FALSE, list |-> l]

\* What happens to one translation lookup: timedFetch aborts it after
\* HTTP_TIMEOUT_MS, the API answers a non-success status, or it answers the
\* entries it holds.
AnsTimeout == [kind |-> "timeout", list |-> <<>>]
AnsNotOk == [kind |-> "notok", list |-> <<>>]
AnsOk(l) == [kind |-> "ok", list |-> l]

fetchProductTranslations_throwOnStatus(ans) ==
  IF ans.kind = "ok" THEN [threw |-> FALSE, trs |-> ListTrs(ans.list)]
  ELSE [threw |-> TRUE, trs |-> NullTrs]
\* const resp = await timedFetch(url, ...); if (!resp.ok) return null;
\* return json?.translations || null;
fetchProductTranslations(ans) ==
  IF ans.kind = "timeout" THEN [threw |-> TRUE, trs |-> NullTrs]
  ELSE IF ans.kind = "notok" THEN [threw |-> FALSE, trs |-> NullTrs]
  ELSE [threw |-> FALSE, trs |-> ListTrs(ans.list)]

\* r.trs || []
OrEmpty(trs) == IF trs.isNull THEN <<>> ELSE trs.list

(* -------------------------------- pMap --------------------------------- *)
Range(f) == {f[i] : i \in DOMAIN f}

\* if (limit <= items.length)
Tracked(limit, n) == limit <= n

AtLimit_above(executing, limit) == Len(executing) > limit
\* if (executing.length >= limit) await Promise.race(executing)
AtLimit(executing, limit) == Len(executing) >= limit

NoResult == [id |-> Gid("none", 0), trs |-> NullTrs]

StartPMap(items, limit) ==
  [pc |-> "loop", items |-> items, limit |-> limit, idx |-> 1,
   pstat |-> [i \in 1..Len(items) |-> "none"],
   value |-> [i \in 1..Len(items) |-> NoResult],
   answer |-> [i \in 1..Len(items) |-> "none"], firstSettled |-> 0,
   asked |-> [i \in 1..Len(items) |-> <<>>],
   executing |-> <<>>, spliced |-> {}, race |-> {}]

\* One pass of the for loop: p is created (the mapper is scheduled), e is
\* pushed, and the loop either goes on or awaits the race of `executing`.
PMapIter(s) ==
  LET i == s.idx
      tracked == Tracked(s.limit, Len(s.items))
      ex == IF tracked THEN Append(s.executing, i) ELSE s.executing
      wait == tracked /\ AtLimit(ex, s.limit)
  IN  [s EXCEPT !.pstat[i] = "created", !.idx = i + 1, !.executing = ex,
                !.pc = IF wait THEN "race" ELSE "loop",
                !.race = IF wait THEN Range(ex) ELSE {}]

\* executing.splice(executing.indexOf(e), 1)
PMapSplice(s, i) ==
  LET ex == s.executing
  IN  [s EXCEPT !.spliced = @ \cup {i},
                !.executing = IF i \in Range(ex)
                              THEN SelectSeq(ex, LAMBDA j : j # i)
                              ELSE SubSeq(ex, 1, Len(ex) - 1)]

\* Mapper calls that have been started and have not settled.
InFlight(s) == {i \in DOMAIN s.pstat : s.pstat[i] \in {"created", "running"}}

hyVars == <<pm, hy>>
otherVars ==
  <<catalog, walk, crawl, sf, responseCache, now, req, useSF, rs, tokenStore>>

PMapLoop ==
  /\ pm.pc = "loop"
  /\ pm' = IF pm.idx <= Len(pm.items) THEN PMapIter(pm) ELSE [pm EXCEPT !.pc = "all"]
  /\ UNCHANGED <<hy, otherVars>>

\* Promise.resolve().then(() => mapper(item)): the lookup is issued, for
\* the locale of the request.  asked logs the locales asked for per item.
MapperStart_reissues ==
  /\ \E i \in DOMAIN pm.pstat :
       /\ pm.pstat[i] \in {"created", "running"}
       /\ Len(pm.asked[i]) < 2
       /\ pm' = [pm EXCEPT !.pstat[i] = "running",
                           !.asked[i] = Append(@, hy.rq.locale)]
  /\ UNCHANGED <<hy, otherVars>>
MapperStart ==
  /\ \E i \in DOMAIN pm.pstat :
       /\ pm.pstat[i] = "created"
       /\ pm' = [pm EXCEPT !.pstat[i] = "running",
                           !.asked[i] = Append(@, hy.rq.locale)]
  /\ UNCHANGED <<hy, otherVars>>

\* async ({ p, idNum }) => { trs = await fetchProductTranslations(...); return { id: p.id, trs } }
MapperResult(p, trs) == [id |-> p.id, trs |-> trs]

\* answer and firstSettled log the API's answers and which lookup ended first.
MapperSettle(s, i, ans) ==
  LET r == fetchProductTranslations(ans)
      t == [s EXCEPT !.answer[i] = ans.kind,
                     !.firstSettled = IF @ = 0 THEN i ELSE @]
  IN  IF r.threw THEN [t EXCEPT !.pstat[i] = "rejected"]
      ELSE [t EXCEPT !.pstat[i] = "fulfilled",
                     !.value[i] = MapperResult(s.items[i], r.trs)]

TransOk ==
  /\ \E i \in DOMAIN pm.pstat :
       /\ pm.pstat[i] = "running"
       /\ \E l \in TransLists(pm.items[i]) : pm' = MapperSettle(pm, i, AnsOk(l))
  /\ UNCHANGED <<hy, otherVars>>

TransNotOk ==
  /\ \E i \in DOMAIN pm.pstat :
       /\ pm.pstat[i] = "running"
       /\ pm' = MapperSettle(pm, i, AnsNotOk)
  /\ UNCHANGED <<hy, otherVars>>

TransTimeout ==
  /\ \E i \in DOMAIN pm.pstat :
       /\ pm.pstat[i] = "running"
       /\ pm' = MapperSettle(pm, i, AnsTimeout)
  /\ UNCHANGED <<hy, otherVars>>

\* The callback of e = p.then(...) runs once p is fulfilled.
Splice ==
  /\ \E i \in DOMAIN pm.pstat :
       /\ pm.pstat[i] = "fulfilled"
       /\ Tracked(pm.limit, Len(pm.items))
       /\ i \notin pm.spliced
       /\ pm' = PMapSplice(pm, i)
  /\ UNCHANGED <<hy, otherVars>>

\* await Promise.race(executing): the loop resumes when an e of the race has
\* resolved, and pMap throws when an e of the race has rejected.
RaceSettle ==
  /\ pm.pc = "race"
  /\ \/ /\ \E i \in pm.race : i \in pm.spliced
        /\ pm' = [pm EXCEPT !.pc = "loop", !.race = {}]
     \/ /\ \E i \in pm.race : pm.pstat[i] = "rejected"
        /\ pm' = [pm EXCEPT !.pc = "threw", !.race = {}]
  /\ UNCHANGED <<hy, otherVars>>

\* return Promise.all(ret): the results in item order, or the first rejection.
AllSettle ==
  /\ pm.pc = "all"
  /\ \/ /\ \A i \in DOMAIN pm.pstat : pm.pstat[i] = "fulfilled"
        /\ pm' = [pm EXCEPT !.pc = "done"]
     \/ /\ \E i \in DOMAIN pm.pstat : pm.pstat[i] = "rejected"
        /\ pm' = [pm EXCEPT !.pc = "threw"]
  /\ UNCHANGED <<hy, otherVars>>

(* ------------------------ merge and rendering -------------------------- *)
\* new Map(prodTrans.map(r => [r.id, r.trs || []])): a later pair replaces
\* an earlier one with the same id.
TransMapOf(prodTrans) ==
  [g \in {prodTrans[i].id : i \in DOMAIN prodTrans} |->
     LET last == CHOOSE i \in DOMAIN prodTrans :
                   /\ prodTrans[i].id = g
                   /\ \A j \in DOMAIN prodTrans : prodTrans[j].id = g => j <= i
     IN  OrEmpty(prodTrans[last].trs)]

LookupTrans_anyEntry(transMap, id) ==
  IF DOMAIN transMap = {} THEN <<>>
  ELSE transMap[CHOOSE g \in DOMAIN transMap :
                  \A h \in DOMAIN transMap : h.num <= g.num]
\* transMap.get(p.id) || []
LookupTrans(transMap, id) == IF id \in DOMAIN transMap THEN transMap[id] ELSE <<>>

\* The first entry with the key and a non-empty value, else "".
extractTranslatedValue(translations, keyExact) ==
  LET hits == {i \in DOMAIN translations :
                 translations[i].key = keyExact /\ translations[i].value # <<>>}
  IN  IF hits = {} THEN <<>>
      ELSE translations[CHOOSE i \in hits : \A j \in hits : i <= j].value

\* "*" or the numeric image id -> alt text; the last entry of a key wins.
\* 0 stands for the key "*".
buildImageAltMapFromTranslations(translations) ==
  LET usable == {i \in DOMAIN translations :
                   /\ translations[i].value # <<>>
                   /\ translations[i].key \in {"image.alt_text", "image[].alt"}}
      keyOf(i) == IF translations[i].key = "image.alt_text" THEN 0
                  ELSE translations[i].img
  IN  [k \in {keyOf(i) : i \in usable} |->
         translations[CHOOSE i \in usable :
                        /\ keyOf(i) = k
                        /\ \A j \in usable : keyOf(j) = k => j <= i].value]

MapGet(map, k) == IF k \in DOMAIN map THEN map[k] ELSE <<>>

\* a || b on strings
OrText(a, b) == IF a # <<>> THEN a ELSE b

\* preferHostImageUrl: a cdn.shopify.com url is rebuilt under the request host.
preferHostImageUrl(url, host) ==
  IF url.origin = <<"cdn.shopify.com">> THEN [url EXCEPT !.origin = host] ELSE url

\* images.map(img => buildImageNode(imgUrl, title, caption))
ProductImageNode(img, trs, rq) ==
  LET productTitleTr == extractTranslatedValue(trs, "title")
      imageAltMap == buildImageAltMapFromTranslations(trs)
      translatedAlt == OrText(MapGet(imageAltMap, numericIdFromGid(img.id)),
                              MapGet(imageAltMap, 0))
      resolved == OrText(translatedAlt, productTitleTr)
  IN  [loc |-> IF rq.preferHost THEN preferHostImageUrl(img.url, rq.host) ELSE img.url,
       title |-> resolved,
       caption |-> IF rq.includeCaptions THEN resolved ELSE <<>>]

pageUrlForProduct(host, handle) == [host |-> host, path |-> <<"products">> \o handle]

\* for (const p of products) { if (!images.length) continue; nodes.push(...) }
RECURSIVE RenderProducts(_, _, _, _)
RenderProducts(products, k, transMap, rq) ==
  IF k > Len(products) THEN <<>>
  ELSE
    LET p == products[k]
        rest == RenderProducts(products, k + 1, transMap, rq)
        trs == LookupTrans(transMap, p.id)
    IN  IF p.images = <<>> THEN rest
        ELSE <<[loc |-> pageUrlForProduct(rq.host, p.handle),
                lastmod |-> p.updatedAt,
                images |-> [i \in DOMAIN p.images |->
                              ProductImageNode(p.images[i], trs, rq)]]>> \o rest

\* The product branch after pMap has returned prodTrans, then the response.
Respond ==
  /\ hy.pc = "pmap"
  /\ pm.pc = "done"
  /\ hy' = [hy EXCEPT !.pc = "done", !.status = 200,
                      !.nodes = RenderProducts(hy.products, 1, TransMapOf(pm.value), hy.rq)]
  /\ UNCHANGED <<pm, otherVars>>

\* catch (e) { return res.status(500).send("Sitemap generation error"); }
CatchError ==
  /\ hy.pc = "pmap"
  /\ pm.pc = "threw"
  /\ hy' = [hy EXCEPT !.pc = "done", !.status = 500]
  /\ UNCHANGED <<pm, otherVars>>

Limits == (1..MaxLimit) \cup {TRANS_CONCURRENCY}

HydrateRequests ==
  [host : {<<"shop", "fr">>}, includeCaptions : BOOLEAN, preferHost : {TRUE},
   locale : {<<"fr">>}]

\* Slices as getProductsSlice returns them: products newest first, each with
\* 0..MaxImages images.
ProductSlices ==
  UNION {{[i \in 1..n |-> Product(n + 1 - i, nimg[i])] : nimg \in [1..n -> 0..MaxImages]}
         : n \in 0..MaxItems}

InitHydrate ==
  /\ \E products \in ProductSlices, limit \in Limits, rq \in HydrateRequests :
       /\ hy = [pc |-> "pmap", rq |-> rq, products |-> products, status |-> 0,
                nodes |-> <<>>]
       /\ pm = StartPMap(products, limit)
  /\ catalog = <<>>
  /\ walk = NoWalk
  /\ crawl = NoCrawl
  /\ sf = NoSf
  /\ NoServer

NextHydrate ==
  \/ PMapLoop \/ MapperStart \/ TransOk \/ TransNotOk \/ TransTimeout
  \/ Splice \/ RaceSettle \/ AllSettle \/ Respond \/ CatchError

SpecHydrate == InitHydrate /\ [][NextHydrate]_vars

(* --------------------------- request parsing --------------------------- *)
\* String.prototype.toLowerCase on the tokens the requests use.
LowerTok(t) ==
  CASE t = "FR" -> "fr" [] t = "IT" -> "it" [] t = "ALL" -> "all"
    [] t = "PRODUCTS" -> "products" [] OTHER -> t

toLowerCase(s) == [i \in DOMAIN s |-> LowerTok(s[i])]

\* (host || "").replace(/:.+$/, "")
stripPort(host) ==
  LET colons == {i \in DOMAIN host : host[i] = ":" /\ i < Len(host)}
  IN  IF colons = {} THEN host
      ELSE SubSeq(host, 1, (CHOOSE i \in colons : \A j \in colons : i <= j) - 1)

endsWith(h, suffix) ==
  Len(h) >= Len(suffix) /\ SubSeq(h, Len(h) - Len(suffix) + 1, Len(h)) = suffix

startsWith(h, prefix) ==
  Len(h) >= Len(prefix) /\ SubSeq(h, 1, Len(prefix)) = prefix

\* locale mapping by host (override via ?locale=)
getLocaleForHost_hostFirst(host, override) ==
  LET h == toLowerCase(host)
  IN  IF endsWith(h, <<".", "fr">>) THEN <<"fr">>
      ELSE IF endsWith(h, <<".", "it">>) THEN <<"it">>
      ELSE IF override # <<>> THEN toLowerCase(override)
      ELSE <<"en">>
getLocaleForHost(host, override) ==
  LET h == toLowerCase(host)
  IN  IF override # <<>> THEN toLowerCase(override)
      ELSE IF endsWith(h, <<".", "fr">>) THEN <<"fr">>
      ELSE IF endsWith(h, <<".", "it">>) THEN <<"it">>
      ELSE IF startsWith(h, <<"ko", ".">>) THEN <<"ko">>
      ELSE IF startsWith(h, <<"ar", ".">>) THEN <<"ar">>
      ELSE IF startsWith(h, <<"iw", ".">>) THEN <<"he">>
      ELSE IF endsWith(h, <<".", "nl">>) THEN <<"nl">>
      ELSE IF endsWith(h, <<".", "ch">>) THEN <<"de">>
      ELSE <<"en">>

\* Integers that query strings spell out.
NumVals == {-1, 0, 1, 2, 3, DEFAULT_PER_PAGE, MAX_URLS_PER_FEED + 1}

\* parseInt(s, 10): the leading integer of the string, else NaN.
parseInt(s) ==
  IF s # <<>> /\ \E n \in NumVals : ToString(n) = s[1]
  THEN CHOOSE n \in NumVals : ToString(n) = s[1]
  ELSE NaN

MathMax(a, b) == IF a = NaN \/ b = NaN THEN NaN ELSE Max(a, b)
MathMin(a, b) == IF a = NaN \/ b = NaN THEN NaN ELSE Min(a, b)
JsMul(a, b) == IF a = NaN \/ b = NaN THEN NaN ELSE a * b
JsSub(a, b) == IF a = NaN \/ b = NaN THEN NaN ELSE a - b

\* `${v}` of a number and of a boolean
NumText(n) == IF n = NaN THEN <<"NaN">> ELSE <<ToString(n)>>
BoolText(b) == IF b THEN <<"true">> ELSE <<"false">>

\* q || d on query strings
OrDefault(q, d) == IF q = <<>> THEN d ELSE q

(* ------------------------------ cacheKey ------------------------------- *)
\* The entries `${k}=${v}` in the order Array.prototype.sort gives them: the
\* names differ before any of them ends, so the names alone decide.
KeyOrder ==
  <<"host", "includeCaptions", "locale", "page", "perPage", "preferHost",
    "route", "shop", "type">>

RECURSIVE JoinEntries(_, _)
JoinEntries(names, parts) ==
  IF names = <<>> THEN <<>>
  ELSE LET k == Head(names)
           rest == JoinEntries(Tail(names), parts)
       IN  IF k \notin DOMAIN parts THEN rest
           ELSE <<k, "=">> \o parts[k] \o (IF rest = <<>> THEN <<>> ELSE <<"|">> \o rest)

\* Object.entries(parts).map(([k,v]) => `${k}=${v}`).sort().join("|")
cacheKey(parts) == JoinEntries(KeyOrder, parts)

\* cacheKey({ route: "image.xml", host, page, perPage, type, includeCaptions, preferHost, locale })
KeyParts(r) ==
  [route |-> <<"image.xml">>, host |-> r.host, page |-> NumText(r.page),
   perPage |-> NumText(r.perPage), type |-> r.type,
   includeCaptions |-> BoolText(r.includeCaptions),
   preferHost |-> BoolText(r.preferHost), locale |-> r.locale]

(* ------------------------- collections rendering ----------------------- *)
\* The collections of the shop were edited after its products.
Collection(n, hasImage) ==
  [id |-> Gid("Collection", n), title |-> Txt("collection", n),
   handle |-> Txt("chandle", n), updatedAt |-> MaxSrvProducts + n,
   image |-> [present |-> hasImage, id |-> Gid("CollectionImage", 10 * n + 1),
              url |-> [origin |-> <<"cdn.shopify.com">>, path |-> 10 * n + 1],
              altText |-> <<>>]]

\* const resp = await timedFetch(url, ...); if (!resp.ok) return null;
fetchCollectionTranslations(ans) ==
  IF ans.kind = "timeout" THEN [threw |-> TRUE, trs |-> NullTrs]
  ELSE IF ans.kind = "notok" THEN [threw |-> FALSE, trs |-> NullTrs]
  ELSE [threw |-> FALSE, trs |-> ListTrs(ans.list)]

\* for (const t of trs) { wildcard or this image's key sets imageAltTr }
RECURSIVE CollectionAlt(_, _, _, _)
CollectionAlt(trs, i, imgIdNum, acc) ==
  IF i > Len(trs) THEN acc
  ELSE LET t == trs[i]
           hit == /\ t.value # <<>>
                  /\ \/ t.key = "image.alt_text"
                     \/ t.key = "image[].alt" /\ t.img = imgIdNum
       IN  CollectionAlt(trs, i + 1, imgIdNum, IF hit THEN t.value ELSE acc)

pageUrlForCollection(host, handle) == [host |-> host, path |-> <<"collections">> \o handle]

\* for (const c of collections) { if (!c.image?.url) continue; nodes.push(...) }
RECURSIVE RenderCollections(_, _, _, _)
RenderCollections(collections, k, transMap, rq) ==
  IF k > Len(collections) THEN <<>>
  ELSE
    LET c == collections[k]
        rest == RenderCollections(collections, k + 1, transMap, rq)
        trs == LookupTrans(transMap, c.id)
        resolved == OrText(CollectionAlt(trs, 1, numericIdFromGid(c.image.id), <<>>),
                           extractTranslatedValue(trs, "title"))
    IN  IF ~c.image.present THEN rest
        ELSE <<[loc |-> pageUrlForCollection(rq.host, c.handle),
                lastmod |-> c.updatedAt,
                images |-> <<[loc |-> IF rq.preferHost
                                      THEN preferHostImageUrl(c.image.url, rq.host)
                                      ELSE c.image.url,
                              title |-> resolved,
                              caption |-> IF rq.includeCaptions THEN resolved ELSE <<>>]>>]>>
             \o rest

(* ----------------------- /image.xml, whole requests -------------------- *)
\* What pMap returns once every mapper has settled: the results in item
\* order, or a rejection when a mapper rejected.
PMapOutcome(items, r) ==
  IF \E i \in DOMAIN items : r[i].threw
  THEN [threw |-> TRUE, value |-> <<>>]
  ELSE [threw |-> FALSE,
        value |-> [i \in DOMAIN items |-> MapperResult(items[i], r[i].trs)]]

\* The final states of gqlPagedSlice over every run of listing answers.
RECURSIVE WalkFinals(_, _)
WalkFinals(w, cat) ==
  IF w.pc # "loop" THEN {w}
  ELSE UNION {WalkFinals(WalkStep(w, resp), cat) :
                resp \in ListingResponses(cat, w.first, w.after)}

\* The static catalogs of the shop, newest first.
ProductCatalog == [i \in 1..MaxSrvProducts |-> Product(MaxSrvProducts + 1 - i, 1)]
CollectionCatalog == [i \in 1..MaxSrvCollections |-> Collection(MaxSrvCollections + 1 - i, TRUE)]

\* The entries the translations API holds for an entity of the shop.
StoredTrans(e) == <<WildTr(e), TitleTr(e)>>
Answers(e) == {AnsOk(StoredTrans(e)), AnsNotOk, AnsTimeout}
AnswerRuns(items) ==
  {a \in [DOMAIN items -> UNION {Answers(items[i]) : i \in DOMAIN items}] :
     \A i \in DOMAIN items : a[i] \in Answers(items[i])}

Procs == 1..MaxRequests

TtlMs == CACHE_TTL_SECONDS * 1000

\* Instants Date.now() is read at: around the multiples of the TTL.
ClockValues == {k * TtlMs + j : k \in 0..MaxEpochs, j \in 0..MaxSkew}

BaseQuery ==
  [host |-> <<"shop", ".", "fr">>, page |-> <<>>, per_page |-> <<"1">>,
   type |-> <<"products">>, prefer_host |-> <<>>, captions |-> <<>>,
   locale |-> <<>>, debug |-> <<>>, signed |-> TRUE]

\* The base request and the requests that differ from it in one parameter.
Queries ==
  {BaseQuery,
   [BaseQuery EXCEPT !.host = <<"shop", ".", "fr", ":", "8080">>],
   [BaseQuery EXCEPT !.page = <<"2">>],
   [BaseQuery EXCEPT !.type = <<"ALL">>],
   [BaseQuery EXCEPT !.captions = <<"0">>],
   [BaseQuery EXCEPT !.locale = <<"IT">>],
   [BaseQuery EXCEPT !.debug = <<"1">>],
   [BaseQuery EXCEPT !.signed = FALSE]}

\* The request parameters as the handler normalises them.
Parse(q) ==
  LET host == stripPort(q.host)
      perPageRaw == MathMax(parseInt(OrDefault(q.per_page, NumText(DEFAULT_PER_PAGE))), 1)
  IN  [host |-> host,
       page |-> MathMax(parseInt(OrDefault(q.page, <<"1">>)), 1),
       perPage |-> MathMin(perPageRaw, MAX_URLS_PER_FEED),
       type |-> toLowerCase(OrDefault(q.type, <<"all">>)),
       includeCaptions |-> OrDefault(q.captions, <<"1">>) = <<"1">>,
       preferHost |-> OrDefault(q.prefer_host, <<"1">>) = <<"1">>,
       locale |-> getLocaleForHost(host, q.locale),
       debug |-> OrDefault(q.debug, <<"0">>) = <<"1">>]

NoParams == Parse(BaseQuery)
NoBody == [debugComment |-> <<>>, nodes |-> <<>>]
NoEntry == [body |-> NoBody, expiresAt |-> 0, writtenAt |-> 0, madeFor |-> NoParams]

\* A request before it arrives.  hit, upstream, failedCall and seen are
\* bookkeeping: was the response served from the cache, was an upstream call
\* issued, which listing call of a slice fetch (0: none) got a non-success
\* status, and which entry, if any, the lookup found.
IdleReq ==
  [pc |-> "idle", q |-> BaseQuery, p |-> NoParams, key |-> <<>>, now |-> 0,
   offset |-> 0, products |-> <<>>, collections |-> <<>>, nodes |-> <<>>,
   status |-> 0, body |-> NoBody, hit |-> FALSE, upstream |-> FALSE,
   failedCall |-> 0,
   seen |-> [found |-> FALSE, entry |-> NoEntry]]

\* The document: the optional debug comment and the <url> nodes.
Document(r) ==
  [debugComment |->
     IF r.p.debug
     THEN <<"locale=">> \o r.p.locale \o <<"host=">> \o r.p.host \o <<"type=">>
          \o r.p.type \o <<"page=">> \o NumText(r.p.page) \o <<"per_page=">>
          \o NumText(r.p.perPage)
     ELSE <<>>,
   nodes |-> r.nodes]

\* if (hit && hit.expiresAt > now)
IsFresh_inverted(hit, t) == hit.expiresAt < t
IsFresh(hit, t) == hit.expiresAt > t

\* expiresAt: now + CACHE_TTL_SECONDS * 1000
ExpiresAt(t) == t + CACHE_TTL_SECONDS * 1000

\* responseCache.set(key, entry)
CachePut_keepsFirst(cache, key, entry) ==
  [k \in DOMAIN cache \cup {key} |-> IF k \in DOMAIN cache THEN cache[k] ELSE entry]
CachePut(cache, key, entry) ==
  [k \in DOMAIN cache \cup {key} |-> IF k = key THEN entry ELSE cache[k]]

srvVars == <<responseCache, now, req, useSF, rs>>
nonSrvVars == <<catalog, walk, crawl, sf, pm, hy, rs, tokenStore>>

\* The stage a request awaits next, or "finish" when no await is left.
AfterArrive(type) ==
  IF type \in {<<"products">>, <<"all">>} THEN "listProducts"
  ELSE IF type = <<"collections">> THEN "listCollections"
  ELSE "finish"

AfterProducts_productsOnly(type) ==
  IF type = <<"collections">> THEN "listCollections" ELSE "finish"
AfterProducts(type) ==
  IF type \in {<<"collections">>, <<"all">>} THEN "listCollections" ELSE "finish"

\* Suspend at the next await, or build the document, store it and respond.
Proceed(p, r, stage) ==
  IF stage = "finish"
  THEN LET xml == Document(r)
       IN  /\ responseCache' =
                CachePut(responseCache, r.key,
                         [body |-> xml, expiresAt |-> ExpiresAt(r.now),
                          writtenAt |-> now, madeFor |-> r.p])
           /\ req' = [req EXCEPT ![p] = [r EXCEPT !.pc = "done", !.status = 200,
                                                  !.body = xml]]
  ELSE /\ req' = [req EXCEPT ![p] = [r EXCEPT !.pc = stage]]
       /\ UNCHANGED responseCache

\* catch (e) { return res.status(500).send("Sitemap generation error"); }
Fail_storesPartial(p, r) ==
  /\ req' = [req EXCEPT ![p] = [r EXCEPT !.pc = "done", !.status = 500]]
  /\ responseCache' =
       CachePut(responseCache, r.key,
                [body |-> Document(r), expiresAt |-> ExpiresAt(r.now),
                 writtenAt |-> now, madeFor |-> r.p])
Fail(p, r) ==
  /\ req' = [req EXCEPT ![p] = [r EXCEPT !.pc = "done", !.status = 500]]
  /\ UNCHANGED responseCache

\* The handler up to its first await, for the parameters prm and their key:
\* signature, cache lookup, then the first stage or the stored document.
ArriveWith(p, q, prm, key) ==
  LET found == key \in DOMAIN responseCache
      hit == IF found THEN responseCache[key] ELSE NoEntry
      r == [req[p] EXCEPT !.q = q, !.p = prm, !.key = key, !.now = now,
                          !.offset = JsMul(JsSub(prm.page, 1), prm.perPage),
                          !.seen = [found |-> found, entry |-> hit]]
  IN  IF ~q.signed
      THEN /\ req' = [req EXCEPT ![p] = [@ EXCEPT !.pc = "done", !.q = q, !.status = 401]]
           /\ UNCHANGED responseCache
      ELSE IF found /\ IsFresh(hit, now)
      THEN /\ req' = [req EXCEPT ![p] = [r EXCEPT !.pc = "done", !.status = 200,
                                                  !.body = hit.body, !.hit = TRUE]]
           /\ UNCHANGED responseCache
      ELSE Proceed(p, r, AfterArrive(prm.type))

Arrive(p) ==
  /\ req[p].pc = "idle"
  /\ \E q \in Queries : ArriveWith(p, q, Parse(q), cacheKey(KeyParts(Parse(q))))
  /\ UNCHANGED <<now, useSF, nonSrvVars>>

\* await getProductsSlice(offset, perPage)
ProductsListed(p) ==
  /\ req[p].pc = "listProducts"
  /\ \E f \in WalkFinals(StartWalk(PRODUCTS_FIRST, req[p].offset, req[p].p.perPage),
                         ProductCatalog) :
       LET r == [req[p] EXCEPT !.upstream = TRUE, !.products = f.out,
                               !.failedCall = IF f.lastOk THEN 0 ELSE f.calls]
       IN  IF f.pc = "threw" THEN Fail(p, r) ELSE Proceed(p, r, "hydrateProducts")
  /\ UNCHANGED <<now, useSF, nonSrvVars>>

\* await pMap(products, TRANS_CONCURRENCY, ...), then the product nodes
ProductsHydrated(p) ==
  /\ req[p].pc = "hydrateProducts"
  /\ \E ans \in AnswerRuns(req[p].products) :
       LET o == PMapOutcome(req[p].products,
                       [i \in DOMAIN ans |-> fetchProductTranslations(ans[i])])
           r == [req[p] EXCEPT !.upstream = @ \/ req[p].products # <<>>]
       IN  IF o.threw THEN Fail(p, r)
           ELSE Proceed(p, [r EXCEPT !.nodes = @ \o RenderProducts(r.products, 1,
                                                      TransMapOf(o.value), r.p)],
                        AfterProducts(r.p.type))
  /\ UNCHANGED <<now, useSF, nonSrvVars>>

\* await getCollectionsSlice(offset, perPage)
CollectionsListed(p) ==
  /\ req[p].pc = "listCollections"
  /\ \E f \in WalkFinals(StartWalk(COLLECTIONS_FIRST, req[p].offset, req[p].p.perPage),
                         CollectionCatalog) :
       LET r == [req[p] EXCEPT !.upstream = TRUE, !.collections = f.out,
                               !.failedCall = IF f.lastOk THEN 0 ELSE f.calls]
       IN  IF f.pc = "threw" THEN Fail(p, r) ELSE Proceed(p, r, "hydrateCollections")
  /\ UNCHANGED <<now, useSF, nonSrvVars>>

\* await pMap(collections, TRANS_CONCURRENCY, ...), the collection nodes and
\* the response
CollectionsHydrated(p) ==
  /\ req[p].pc = "hydrateCollections"
  /\ \E ans \in AnswerRuns(req[p].collections) :
       LET o == PMapOutcome(req[p].collections,
                       [i \in DOMAIN ans |-> fetchCollectionTranslations(ans[i])])
           r == [req[p] EXCEPT !.upstream = @ \/ req[p].collections # <<>>]
       IN  IF o.threw THEN Fail(p, r)
           ELSE Proceed(p, [r EXCEPT !.nodes = @ \o RenderCollections(r.collections, 1,
                                                      TransMapOf(o.value), r.p)],
                        "finish")
  /\ UNCHANGED <<now, useSF, nonSrvVars>>

\* Date.now() moves on.
Tick ==
  /\ \E t \in ClockValues : t > now /\ now' = t
  /\ UNCHANGED <<responseCache, req, useSF, nonSrvVars>>

Init ==
  /\ responseCache = <<>>
  /\ now = 0
  /\ req = [p \in Procs |-> IdleReq]
  /\ useSF = FALSE
  /\ rs = NoResolve
  /\ tokenStore = <<>>
  /\ catalog = <<>>
  /\ walk = NoWalk
  /\ crawl = NoCrawl
  /\ sf = NoSf
  /\ pm = NoPMap
  /\ hy = NoHydrate

Next ==
  \/ Tick
  \/ \E p \in Procs :
       \/ Arrive(p) \/ ProductsListed(p) \/ ProductsHydrated(p)
       \/ CollectionsListed(p) \/ CollectionsHydrated(p)

Spec == Init /\ [][Next]_vars

(* ------------- /image.xml with malformed page and per_page ------------- *)
\* What a crawler may send as page and per_page: absent, zero, negative,
\* in range, above the cap, not a number.
PageTexts == {<<>>, <<"0">>, <<"-1">>, <<"2">>, <<"abc">>}
PerPageTexts == {<<>>, <<"0">>, <<"-1">>, <<"1">>, <<"5001">>, <<"abc">>}

QueriesClamp ==
  {[BaseQuery EXCEPT !.page = a, !.per_page = b] : a \in PageTexts, b \in PerPageTexts}

ArriveClamp(p) ==
  /\ req[p].pc = "idle"
  /\ \E q \in QueriesClamp : ArriveWith(p, q, Parse(q), cacheKey(KeyParts(Parse(q))))
  /\ UNCHANGED <<now, useSF, nonSrvVars>>

NextClamp ==
  \E p \in Procs : ArriveClamp(p) \/ ProductsListed(p) \/ ProductsHydrated(p)

SpecClamp == Init /\ [][NextClamp]_vars

(* ------------------ /image.xml of the hybrid server -------------------- *)
\* The requests the hybrid handler tells apart: it reads neither captions
\* nor debug.
QueriesHybrid ==
  {BaseQuery,
   [BaseQuery EXCEPT !.host = <<"shop", ".", "fr", ":", "8080">>],
   [BaseQuery EXCEPT !.page = <<"1">>],
   [BaseQuery EXCEPT !.page = <<"2">>],
   [BaseQuery EXCEPT !.type = <<"PRODUCTS">>],
   [BaseQuery EXCEPT !.type = <<"ALL">>],
   [BaseQuery EXCEPT !.prefer_host = <<"0">>],
   [BaseQuery EXCEPT !.locale = <<"FR">>],
   [BaseQuery EXCEPT !.locale = <<"IT">>],
   [BaseQuery EXCEPT !.signed = FALSE]}

\* Captions are always written and there is no debug comment.
ParseHybrid(q) == [Parse(q) EXCEPT !.includeCaptions = TRUE, !.debug = FALSE]

\* cacheKey({route:"image.xml",host,page,perPage,type,preferHost,locale})
KeyPartsHybrid(r) ==
  [route |-> <<"image.xml">>, host |-> r.host, page |-> NumText(r.page),
   perPage |-> NumText(r.perPage), type |-> r.type,
   preferHost |-> BoolText(r.preferHost), locale |-> r.locale]

\* The Storefront API answers in the language of Accept-Language.
Localized(e, locale) == [e EXCEPT !.title = @ \o locale]

\* (img.altText && img.altText.trim()) ? img.altText : localizedTitle
HybridImageNode(url, altText, title, rq) ==
  LET resolved == OrText(altText, title)
  IN  [loc |-> IF rq.preferHost THEN preferHostImageUrl(url, rq.host) ELSE url,
       title |-> resolved, caption |-> resolved]

RECURSIVE RenderProductsHybrid(_, _, _)
RenderProductsHybrid(products, k, rq) ==
  IF k > Len(products) THEN <<>>
  ELSE
    LET p == products[k]
        rest == RenderProductsHybrid(products, k + 1, rq)
    IN  IF p.images = <<>> THEN rest
        ELSE <<[loc |-> pageUrlForProduct(rq.host, p.handle),
                lastmod |-> p.updatedAt,
                images |-> [i \in DOMAIN p.images |->
                              HybridImageNode(p.images[i].url, p.images[i].altText,
                                              p.title, rq)]]>> \o rest

RECURSIVE RenderCollectionsHybrid(_, _, _)
RenderCollectionsHybrid(collections, k, rq) ==
  IF k > Len(collections) THEN <<>>
  ELSE
    LET c == collections[k]
        rest == RenderCollectionsHybrid(collections, k + 1, rq)
    IN  IF ~c.image.present THEN rest
        ELSE <<[loc |-> pageUrlForCollection(rq.host, c.handle),
                lastmod |-> c.updatedAt,
                images |-> <<HybridImageNode(c.image.url, c.image.altText,
                                             c.title, rq)>>]>> \o rest

\* useSF ? await sfGet...Slice(offset, perPage, locale)
\*       : await get...Slice(offset, perPage): the slices the call may
\* return, or a throw.
HybridSlices(cat, first, r) ==
  IF useSF
  THEN {[threw |-> ~resp.ok, failedCall |-> IF resp.ok THEN 0 ELSE 1,
         out |-> LET w == SfWindow(resp.nodes, r.offset, r.p.perPage)
                 IN  [i \in DOMAIN w |-> Localized(w[i], r.p.locale)]] :
          resp \in SfResponses(cat, SfPageSize(r.p.perPage) + r.offset)}
  ELSE {[threw |-> f.pc = "threw", out |-> f.out,
          failedCall |-> IF f.lastOk THEN 0 ELSE f.calls] :
          f \in WalkFinals(StartWalk(first, r.offset, r.p.perPage), cat)}

ArriveHybrid(p) ==
  /\ req[p].pc = "idle"
  /\ \E q \in QueriesHybrid :
       ArriveWith(p, q, ParseHybrid(q), cacheKey(KeyPartsHybrid(ParseHybrid(q))))
  /\ UNCHANGED <<now, useSF, nonSrvVars>>

\* the product slice arrives: the product nodes, then collections or the
\* response
ProductsListedHybrid(p) ==
  /\ req[p].pc = "listProducts"
  /\ \E s \in HybridSlices(ProductCatalog, PRODUCTS_FIRST, req[p]) :
       LET r == [req[p] EXCEPT !.upstream = TRUE, !.products = s.out,
                               !.failedCall = s.failedCall]
       IN  IF s.threw THEN Fail(p, r)
           ELSE Proceed(p, [r EXCEPT !.nodes = @ \o RenderProductsHybrid(s.out, 1, r.p)],
                        AfterProducts(r.p.type))
  /\ UNCHANGED <<now, useSF, nonSrvVars>>

\* the collection slice arrives: the collection nodes and the response
CollectionsListedHybrid(p) ==
  /\ req[p].pc = "listCollections"
  /\ \E s \in HybridSlices(CollectionCatalog, COLLECTIONS_FIRST, req[p]) :
       LET r == [req[p] EXCEPT !.upstream = TRUE, !.collections = s.out,
                               !.failedCall = s.failedCall]
       IN  IF s.threw THEN Fail(p, r)
           ELSE Proceed(p, [r EXCEPT !.nodes = @ \o RenderCollectionsHybrid(s.out, 1, r.p)],
                        "finish")
  /\ UNCHANGED <<now, useSF, nonSrvVars>>

InitHybrid ==
  /\ responseCache = <<>>
  /\ now = 0
  /\ req = [p \in Procs |-> IdleReq]
  /\ useSF \in BOOLEAN
  /\ rs = NoResolve
  /\ tokenStore = <<>>
  /\ catalog = <<>>
  /\ walk = NoWalk
  /\ crawl = NoCrawl
  /\ sf = NoSf
  /\ pm = NoPMap
  /\ hy = NoHydrate

NextHybrid ==
  \/ Tick
  \/ \E p \in Procs :
       ArriveHybrid(p) \/ ProductsListedHybrid(p) \/ CollectionsListedHybrid(p)

SpecHybrid == InitHybrid /\ [][NextHybrid]_vars

(* ---------------- text resolution on a slice, in isolation ------------- *)
\* The OAuth-free translations server of part_001 falls back to the
\* base-locale title and always writes the caption:
\* const productTitleFallback = productTitleTr || p.title || "";
\* const resolved = translatedAlt || productTitleFallback;
ProductImageNode001_wildcardFirst(img, title, trs, rq) ==
  LET productTitleTr == extractTranslatedValue(trs, "title")
      imageAltMap == buildImageAltMapFromTranslations(trs)
      translatedAlt == OrText(MapGet(imageAltMap, 0),
                              MapGet(imageAltMap, numericIdFromGid(img.id)))
      resolved == OrText(translatedAlt, OrText(productTitleTr, title))
  IN  [loc |-> IF rq.preferHost THEN preferHostImageUrl(img.url, rq.host) ELSE img.url,
       title |-> resolved, caption |-> resolved]
ProductImageNode001(img, title, trs, rq) ==
  LET productTitleTr == extractTranslatedValue(trs, "title")
      imageAltMap == buildImageAltMapFromTranslations(trs)
      translatedAlt == OrText(MapGet(imageAltMap, numericIdFromGid(img.id)),
                              MapGet(imageAltMap, 0))
      resolved == OrText(translatedAlt, OrText(productTitleTr, title))
  IN  [loc |-> IF rq.preferHost THEN preferHostImageUrl(img.url, rq.host) ELSE img.url,
       title |-> resolved, caption |-> resolved]

RECURSIVE RenderProducts001(_, _, _, _)
RenderProducts001(products, k, transMap, rq) ==
  IF k > Len(products) THEN <<>>
  ELSE
    LET p == products[k]
        rest == RenderProducts001(products, k + 1, transMap, rq)
        trs == LookupTrans(transMap, p.id)
    IN  IF p.images = <<>> THEN rest
        ELSE <<[loc |-> pageUrlForProduct(rq.host, p.handle),
                lastmod |-> p.updatedAt,
                images |-> [i \in DOMAIN p.images |->
                              ProductImageNode001(p.images[i], p.title, trs, rq)]]>>
             \o rest

\* const resolved = imageAltTr || collectionTitleTr || c.title || "";
RECURSIVE RenderCollections001(_, _, _, _)
RenderCollections001(collections, k, transMap, rq) ==
  IF k > Len(collections) THEN <<>>
  ELSE
    LET c == collections[k]
        rest == RenderCollections001(collections, k + 1, transMap, rq)
        trs == LookupTrans(transMap, c.id)
        resolved == OrText(CollectionAlt(trs, 1, numericIdFromGid(c.image.id), <<>>),
                           OrText(extractTranslatedValue(trs, "title"), c.title))
    IN  IF ~c.image.present THEN rest
        ELSE <<[loc |-> pageUrlForCollection(rq.host, c.handle),
                lastmod |-> c.updatedAt,
                images |-> <<[loc |-> IF rq.preferHost
                                      THEN preferHostImageUrl(c.image.url, rq.host)
                                      ELSE c.image.url,
                              title |-> resolved, caption |-> resolved]>>]>>
             \o rest

\* The entity whose text is resolved: a product with 0..MaxAltImages images
\* or a collection with or without an image, with or without a base title.
ResolveEntities ==
  {[kind |-> "product", e |-> [Product(1, n) EXCEPT !.title = t]] :
     n \in 0..MaxAltImages, t \in {<<>>, Txt("product", 1)}}
  \cup
  {[kind |-> "collection", e |-> [Collection(1, h) EXCEPT !.title = t]] :
     h \in BOOLEAN, t \in {<<>>, Txt("collection", 1)}}

\* A second entity of the slice; it has an image and no translations.
Sibling(kind) == IF kind = "product" THEN Product(2, 1) ELSE Collection(2, TRUE)

\* The numeric id of the entity's first image and of another image.
OwnImg(e) == 10 * e.id.num + 1
OtherImg(e) == 10 * e.id.num + 2

\* The entries the translations API may hold for the entity, each with a
\* value or with an empty one.
EntryKinds == {"own", "other", "wild", "title"}
EntryOf(e, k, empty) ==
  [key |-> CASE k = "own" -> "image[].alt" [] k = "other" -> "image[].alt"
             [] k = "wild" -> "image.alt_text" [] OTHER -> "title",
   img |-> CASE k = "own" -> OwnImg(e) [] k = "other" -> OtherImg(e) [] OTHER -> 0,
   value |-> IF empty THEN <<>> ELSE Txt(k, e.id.num)]

\* The lists the API may answer with: at most one entry per key, any order.
EntryLists(e) ==
  {[i \in DOMAIN l |-> EntryOf(e, l[i][1], l[i][2])] :
     l \in {m \in UNION {[1..n -> EntryKinds \X BOOLEAN] : n \in 0..MaxTrs} :
              \A i, j \in DOMAIN m : i # j => m[i][1] # m[j][1]}}

ResolveRq ==
  [host |-> <<"shop", ".", "fr">>, includeCaptions |-> TRUE, preferHost |-> TRUE,
   locale |-> <<"fr">>]

\* new Map(prodTrans.map(...)) for the slice: the entity's lookup result and
\* the sibling's empty list.
ResolveTransMap ==
  TransMapOf([i \in DOMAIN rs.slice |->
                MapperResult(rs.slice[i],
                             IF rs.slice[i] = rs.e THEN rs.trs ELSE ListTrs(<<>>))])

InitResolve ==
  /\ \E x \in ResolveEntities :
       \E trs \in {NullTrs} \cup {ListTrs(l) : l \in EntryLists(x.e)} :
         \E slice \in {<<x.e>>, <<x.e, Sibling(x.kind)>>, <<Sibling(x.kind), x.e>>} :
           rs = [pc |-> "resolve", kind |-> x.kind, e |-> x.e, trs |-> trs,
                 slice |-> slice, done |-> {}, out |-> <<>>, out001 |-> <<>>]
  /\ catalog = <<>>
  /\ walk = NoWalk
  /\ crawl = NoCrawl
  /\ sf = NoSf
  /\ pm = NoPMap
  /\ hy = NoHydrate
  /\ responseCache = <<>> /\ now = 0 /\ req = <<>> /\ useSF = FALSE
  /\ tokenStore = <<>>

resolveOthers ==
  <<catalog, walk, crawl, sf, pm, hy, responseCache, now, req, useSF, tokenStore>>

\* the product loop of part_002
ResolveProducts ==
  /\ rs.pc = "resolve" /\ rs.kind = "product"
  /\ rs' = [rs EXCEPT !.done = @ \cup {"002"},
                      !.out = RenderProducts(rs.slice, 1, ResolveTransMap, ResolveRq)]
  /\ UNCHANGED resolveOthers

\* the product loop of part_001
ResolveProducts001 ==
  /\ rs.pc = "resolve" /\ rs.kind = "product"
  /\ rs' = [rs EXCEPT !.done = @ \cup {"001"},
                      !.out001 = RenderProducts001(rs.slice, 1, ResolveTransMap, ResolveRq)]
  /\ UNCHANGED resolveOthers

\* the collection loop of part_002
ResolveCollections ==
  /\ rs.pc = "resolve" /\ rs.kind = "collection"
  /\ rs' = [rs EXCEPT !.done = @ \cup {"002"},
                      !.out = RenderCollections(rs.slice, 1, ResolveTransMap, ResolveRq)]
  /\ UNCHANGED resolveOthers

\* the collection loop of part_001
ResolveCollections001 ==
  /\ rs.pc = "resolve" /\ rs.kind = "collection"
  /\ rs' = [rs EXCEPT !.done = @ \cup {"001"},
                      !.out001 = RenderCollections001(rs.slice, 1, ResolveTransMap, ResolveRq)]
  /\ UNCHANGED resolveOthers

NextResolve ==
  \/ ResolveProducts \/ ResolveProducts001
  \/ ResolveCollections \/ ResolveCollections001

SpecResolve == InitResolve /\ [][NextResolve]_vars

(* ----------------------- getLocaleForHost, in isolation ---------------- *)
\* Hosts a request may name, each with the locales the host patterns
\* (.fr, .it, ko., ar., iw., .nl, .ch) give it; "en" when none matches.
LocaleHosts ==
  {[host |-> <<"shop", ".", "fr">>, locales |-> {<<"fr">>}],
   [host |-> <<"shop", ".", "FR">>, locales |-> {<<"fr">>}],
   [host |-> <<"shop", ".", "it">>, locales |-> {<<"it">>}],
   [host |-> <<"ko", ".", "shop", ".", "com">>, locales |-> {<<"ko">>}],
   [host |-> <<"ar", ".", "shop", ".", "com">>, locales |-> {<<"ar">>}],
   [host |-> <<"iw", ".", "shop", ".", "com">>, locales |-> {<<"he">>}],
   [host |-> <<"shop", ".", "nl">>, locales |-> {<<"nl">>}],
   [host |-> <<"shop", ".", "ch">>, locales |-> {<<"de">>}],
   [host |-> <<"ko", ".", "shop", ".", "fr">>, locales |-> {<<"ko">>, <<"fr">>}],
   [host |-> <<"shop", ".", "com">>, locales |-> {<<"en">>}],
   [host |-> <<"shopfr">>, locales |-> {<<"en">>}],
   [host |-> <<"fr", ".", "shop", ".", "com">>, locales |-> {<<"en">>}],
   [host |-> <<>>, locales |-> {<<"en">>}]}

\* Values of ?locale=, "" when absent.
LocaleOverrides == {<<>>, <<"it">>, <<"IT">>, <<"FR">>, <<"ja">>}

InitLocale ==
  /\ \E h \in LocaleHosts, o \in LocaleOverrides :
       rs = [pc |-> "locale", host |-> h.host, locales |-> h.locales,
             override |-> o, outs |-> <<>>]
  /\ catalog = <<>>
  /\ walk = NoWalk
  /\ crawl = NoCrawl
  /\ sf = NoSf
  /\ pm = NoPMap
  /\ hy = NoHydrate
  /\ responseCache = <<>> /\ now = 0 /\ req = <<>> /\ useSF = FALSE
  /\ tokenStore = <<>>

\* const locale = getLocaleForHost(host, req.query.locale), once per request
LocaleCall ==
  /\ rs.pc = "locale"
  /\ Len(rs.outs) < MaxCalls
  /\ rs' = [rs EXCEPT !.outs = Append(@, getLocaleForHost(rs.host, rs.override))]
  /\ UNCHANGED resolveOthers

NextLocale == LocaleCall

SpecLocale == InitLocale /\ [][NextLocale]_vars

(* ------------------------------- claims -------------------------------- *)

\* C1: a returned gqlPagedSlice(offset, take) holds exactly the catalog
\* entities at positions [offset, min(offset+take, N)), in upstream order.
C1_SliceCorrect ==
  walk.pc = "returned" =>
    /\ walk.out = JsSlice(catalog, walk.offset, walk.offset + walk.take)
    /\ Len(walk.out) <= walk.take

\* A short result across several pages: entities skipped, fewer than take left.
C1_Witness ==
  /\ walk.pc = "returned"
  /\ walk.calls >= 2
  /\ walk.offset > 0
  /\ walk.out # <<>>
  /\ Len(walk.out) < walk.take
  /\ walk.offset + walk.take > Len(catalog)

C3_SfWindow ==
  sf.pc = "returned" =>
    sf.out = JsSlice(catalog, sf.offset, sf.offset + sf.limit)

\* C9: the mapper calls started and not yet settled never exceed limit.
C9_BoundedFanOut ==
  pm.pc # "none" => Cardinality(InFlight(pm)) <= pm.limit

\* limit lookups are in flight and a further item waits for a free slot.
C9_Witness ==
  /\ pm.pc = "race"
  /\ pm.limit < Len(pm.items)
  /\ Cardinality({i \in DOMAIN pm.pstat : pm.pstat[i] = "running"}) = pm.limit
  /\ pm.idx <= Len(pm.items)

\* The <url> nodes are the slice entities that have images, in slice order.
NodesInSliceOrder ==
  LET withImages == SelectSeq(hy.products, LAMBDA p : p.images # <<>>)
  IN  /\ Len(hy.nodes) = Len(withImages)
      /\ \A k \in DOMAIN hy.nodes :
           /\ hy.nodes[k].loc = pageUrlForProduct(hy.rq.host, withImages[k].handle)
           /\ Len(hy.nodes[k].images) = Len(withImages[k].images)

\* Every image title is a translation of the node's own entity, and it is
\* present exactly when the lookup of that entity answered some entry.
OwnTranslations ==
  LET withImages == SelectSeq(hy.products, LAMBDA p : p.images # <<>>)
      itemOf(p) == CHOOSE j \in DOMAIN pm.items : pm.items[j].id = p.id
  IN  \A k \in DOMAIN hy.nodes : \A i \in DOMAIN hy.nodes[k].images :
        LET t == hy.nodes[k].images[i].title
            v == pm.value[itemOf(withImages[k])]
        IN  /\ t # <<>> => t[2] = ToString(withImages[k].id.num)
            /\ (t # <<>>) <=> (pm.answer[itemOf(withImages[k])] = "ok" /\ v.trs.list # <<>>)

\* C7: when every lookup of the slice answers, with a success or a
\* non-success status, the request responds 200, renders every entity that
\* has images in slice order, and the successful lookups give their entity
\* its own translations.
C7_NonSuccessNonFatal ==
  (hy.pc = "done" /\ \A i \in DOMAIN pm.answer : pm.answer[i] \in {"ok", "notok"}) =>
    /\ hy.status = 200
    /\ NodesInSliceOrder
    /\ OwnTranslations

\* One lookup failed with a status, another succeeded, both entities rendered.
C7_Witness ==
  /\ hy.pc = "done" /\ hy.status = 200
  /\ Len(hy.nodes) >= 2
  /\ \E i, j \in DOMAIN pm.answer :
       /\ pm.answer[i] = "notok" /\ pm.items[i].images # <<>>
       /\ pm.answer[j] = "ok" /\ pm.value[j].trs.list # <<>> /\ pm.items[j].images # <<>>

\* C8: a lookup that timed out never turns the request into an error: the
\* response is 200 with every entity that has images.
C8_TimeoutNonFatal ==
  (hy.pc = "done" /\ \E i \in DOMAIN pm.answer : pm.answer[i] = "timeout") =>
    /\ hy.status = 200
    /\ NodesInSliceOrder

\* C10: whichever lookup completes first, a rendered document lists the
\* entities in the order of the slice and gives each the translations
\* fetched for its own id.
C10_OrderIndependent ==
  hy.status = 200 =>
    /\ NodesInSliceOrder
    /\ OwnTranslations

\* The lookup of the last entity of the slice completed first.
C10_Witness ==
  /\ hy.status = 200
  /\ Len(hy.nodes) >= 2
  /\ pm.firstSettled = Len(pm.items)
  /\ \A i \in DOMAIN pm.value : pm.value[i].trs.list # <<>>

\* The requests that passed the signature check and computed their key.
Keyed == {p \in Procs : req[p].pc # "idle" /\ req[p].status # 401}

\* C4: two requests that differ in a parameter that changes the document
\* (host, page, per_page, type, prefer_host, captions, locale, debug) never
\* have the same cache key, and a request served from the cache gets a
\* document rendered for its own parameters.
C4_KeyComplete ==
  /\ \A p1, p2 \in Keyed : req[p1].p # req[p2].p => req[p1].key # req[p2].key
  /\ \A p \in Keyed : req[p].hit => req[p].seen.entry.madeFor = req[p].p

\* C5: a lookup that finds an entry written at t_ins serves it exactly when
\* the lookup happens before t_ins + CACHE_TTL_SECONDS*1000.
C5_TtlFromInsertion ==
  \A p \in Keyed :
    req[p].seen.found =>
      (req[p].hit <=> req[p].now < req[p].seen.entry.writtenAt + CACHE_TTL_SECONDS * 1000)

\* The parameters C6 names: host without port, clamped page and per_page,
\* lower-cased type, prefer_host and the resolved locale.
Normalized(prm) ==
  <<prm.host, prm.page, prm.perPage, prm.type, prm.preferHost, prm.locale>>

\* C6: a request whose normalized parameters equal those of a stored,
\* unexpired document is answered 200 with exactly that document, calls no
\* upstream API and leaves the cache as it is.
C6_CacheHit ==
  /\ [](\A p \in Keyed :
          /\ \A k \in DOMAIN responseCache :
               Normalized(responseCache[k].madeFor) = Normalized(req[p].p)
                 => k = req[p].key
          /\ (req[p].seen.found /\ req[p].seen.entry.expiresAt > req[p].now) =>
               /\ req[p].pc = "done" /\ req[p].hit /\ req[p].status = 200
               /\ req[p].body = req[p].seen.entry.body
               /\ ~req[p].upstream)
  /\ [][\A p \in Procs :
          (req[p].pc = "idle" /\ req'[p].hit) => responseCache' = responseCache]_vars

\* A request with a port in its host header is served the document stored
\* for the request without it.
C6_Witness ==
  \E p1, p2 \in Procs :
    /\ req[p1].pc = "done" /\ req[p1].status = 200 /\ ~req[p1].hit
    /\ req[p2].pc = "done" /\ req[p2].hit
    /\ req[p1].q.host # req[p2].q.host
    /\ req[p2].body = req[p1].body
    /\ req[p2].body.nodes # <<>>

\* C11: when a listing call of a slice fetch, the first or a later one, gets
\* a non-success status, the fetch yields no entities and the request ends
\* with status 500 and no document.
C11_ListingFailureAborts ==
  \A p \in Procs :
    req[p].failedCall > 0 =>
      /\ req[p].pc = "done" /\ req[p].status = 500
      /\ req[p].body = NoBody
      /\ \/ req[p].nodes = <<>> /\ req[p].products = <<>>
         \/ req[p].p.type = <<"all">> /\ req[p].collections = <<>>

\* One request whose second listing call fails after entities were skipped,
\* and one whose collection listing fails after the product nodes were built.
C11_Witness ==
  /\ \E p \in Procs :
       req[p].failedCall >= 2 /\ req[p].offset > 0 /\ req[p].status = 500
  /\ \E p \in Procs :
       req[p].failedCall = 1 /\ req[p].nodes # <<>> /\ req[p].status = 500

\* The number of slice entities of a request's type; each has an image.
SliceSize(cat, r) == Len(JsSlice(cat, r.offset, r.offset + r.p.perPage))

EntitiesOf(r) ==
  (IF r.p.type \in {<<"products">>, <<"all">>} THEN SliceSize(ProductCatalog, r) ELSE 0)
  + (IF r.p.type \in {<<"collections">>, <<"all">>}
     THEN SliceSize(CollectionCatalog, r) ELSE 0)

\* C12: a request that ends with a status other than 200 leaves
\* responseCache as it was, and every entry of responseCache is the complete
\* document of a request that was answered 200 with it.
C12_NoFailedDocumentCached ==
  /\ [](\A k \in DOMAIN responseCache :
          \E p \in Procs :
            /\ req[p].pc = "done" /\ req[p].status = 200 /\ ~req[p].hit
            /\ req[p].key = k /\ req[p].body = responseCache[k].body
            /\ Len(req[p].body.nodes) = EntitiesOf(req[p]))
  /\ [][\A p \in Procs :
          (req[p].pc # "done" /\ req'[p].pc = "done" /\ req'[p].status # 200)
            => responseCache' = responseCache]_vars

\* A request answered 500 and one answered 401 while the cache holds the
\* document of a request for both resource types.
C12_Witness ==
  /\ \E p \in Procs : req[p].status = 500 /\ req[p].nodes # <<>>
  /\ \E k \in DOMAIN responseCache : Len(responseCache[k].body.nodes) >= 2

\* C13: the <url> entries of a document are in non-increasing order of
\* updatedAt, for type products, collections and all.
C13_UpdatedAtDescending ==
  \A p \in Procs :
    req[p].status = 200 =>
      \A i, j \in DOMAIN req[p].body.nodes :
        i < j => req[p].body.nodes[i].lastmod >= req[p].body.nodes[j].lastmod

\* C14: a document holds at most perPage <url> entries, for type products,
\* collections and all.
C14_PerPageCap ==
  \A p \in Procs :
    req[p].status = 200 => Len(req[p].body.nodes) <= req[p].p.perPage

\* C15: whatever page and per_page hold, the effective page is an integer
\* >= 1, the effective perPage an integer in 1..MAX_URLS_PER_FEED, and the
\* offset handed to the slice fetch a non-negative integer.
C15_PaginationClamped ==
  \A p \in Keyed :
    /\ req[p].p.page # NaN /\ req[p].p.page >= 1
    /\ req[p].p.perPage # NaN /\ req[p].p.perPage \in 1..MAX_URLS_PER_FEED
    /\ req[p].offset # NaN /\ req[p].offset >= 0

\* The value the translations answer holds under a key, "" when it holds none.
EntryValue(key, img) ==
  LET l == OrEmpty(rs.trs)
      hits == {i \in DOMAIN l : l[i].key = key /\ l[i].img = img}
  IN  IF hits = {} THEN <<>> ELSE l[CHOOSE i \in hits : TRUE].value

FirstNonEmpty(ts) ==
  LET full == {i \in DOMAIN ts : ts[i] # <<>>}
  IN  IF full = {} THEN <<>> ELSE ts[CHOOSE i \in full : \A j \in full : i <= j]

\* The <url> entries of a rendering that belong to the entity.
EntityNodes(out) ==
  {i \in DOMAIN out :
     out[i].loc = IF rs.kind = "product"
                  THEN pageUrlForProduct(ResolveRq.host, rs.e.handle)
                  ELSE pageUrlForCollection(ResolveRq.host, rs.e.handle)}

HasImage(kind, e) == IF kind = "product" THEN e.images # <<>> ELSE e.image.present

\* C16: the title and caption of every product image are the first non-empty
\* value of: the translation keyed by the image's id, the wildcard
\* image.alt_text translation, the translated product title, the base title;
\* whatever the order of the entries.
C16_ProductTextPrecedence ==
  (rs.pc = "resolve" /\ rs.kind = "product" /\ "001" \in rs.done /\ rs.e.images # <<>>) =>
    /\ EntityNodes(rs.out001) # {}
    /\ \A i \in EntityNodes(rs.out001), j \in DOMAIN rs.e.images :
         LET text == FirstNonEmpty(<<EntryValue("image[].alt",
                                                numericIdFromGid(rs.e.images[j].id)),
                                     EntryValue("image.alt_text", 0),
                                     EntryValue("title", 0), rs.e.title>>)
         IN  /\ rs.out001[i].images[j].title = text
             /\ rs.out001[i].images[j].caption = text

\* The wildcard entry comes before the entry of the first image, the title
\* entry is there too, and the second image has no entry of its own.
C16_Witness ==
  /\ rs.pc = "resolve" /\ rs.kind = "product" /\ "001" \in rs.done
  /\ Len(rs.e.images) = 2
  /\ ~rs.trs.isNull
  /\ \E a, b, c \in DOMAIN rs.trs.list :
       /\ a < b
       /\ rs.trs.list[a].key = "image.alt_text" /\ rs.trs.list[a].value # <<>>
       /\ rs.trs.list[b].key = "image[].alt" /\ rs.trs.list[b].img = OwnImg(rs.e)
       /\ rs.trs.list[b].value # <<>>
       /\ rs.trs.list[c].key = "title" /\ rs.trs.list[c].value # <<>>
  /\ \E i \in EntityNodes(rs.out001) :
       rs.out001[i].images[1].title # rs.out001[i].images[2].title

\* The text C17 and C18 speak of: the title of the entity's first image in
\* a rendering, "" when the entity has no entry there.
FirstImageTitle(out) ==
  IF EntityNodes(out) = {} THEN <<>>
  ELSE out[CHOOSE i \in EntityNodes(out) : TRUE].images[1].title

\* C17: for a collection, the translation keyed by its image's id wins over
\* the wildcard image.alt_text translation, which wins over the translated
\* title, in whatever order the entries come.
C17_CollectionTextPrecedence ==
  (rs.pc = "resolve" /\ rs.kind = "collection" /\ rs.e.image.present) =>
    LET own == EntryValue("image[].alt", numericIdFromGid(rs.e.image.id))
        wild == EntryValue("image.alt_text", 0)
        title == EntryValue("title", 0)
        Right(out) ==
          /\ own # <<>> => FirstImageTitle(out) = own
          /\ (own = <<>> /\ wild # <<>>) => FirstImageTitle(out) = wild
          /\ (own = <<>> /\ wild = <<>> /\ title # <<>>) => FirstImageTitle(out) = title
    IN  /\ "002" \in rs.done => Right(rs.out)
        /\ "001" \in rs.done => Right(rs.out001)

\* No entry of the translations answer has a value.
NoUsableEntry ==
  \A i \in DOMAIN OrEmpty(rs.trs) : OrEmpty(rs.trs)[i].value = <<>>

\* C18: when the translation lookup of an entity with an image yields no
\* usable entry, the image title is the entity's base-locale title.
C18_FallbackToBase ==
  (rs.pc = "resolve" /\ "002" \in rs.done /\ HasImage(rs.kind, rs.e) /\ NoUsableEntry) =>
    FirstImageTitle(rs.out) = rs.e.title

\* C19: whatever the translation lookups gave, a product of the slice
\* without images has no <url> entry in the response and a product with
\* images has exactly one.
C19_NoImageNoEntry ==
  hy.pc = "done" =>
    \A i \in DOMAIN hy.products :
      Cardinality({j \in DOMAIN hy.nodes :
                     hy.nodes[j].loc = pageUrlForProduct(hy.rq.host, hy.products[i].handle)})
        = IF hy.products[i].images # <<>> THEN 1 ELSE 0

\* Lower case of the override values, letter by letter.
LowerOverride(o) ==
  CASE o = <<"IT">> -> <<"it">> [] o = <<"FR">> -> <<"fr">> [] OTHER -> o

\* C20: with a non-empty override getLocaleForHost gives the lower-cased
\* override whatever the host; with none it gives the locale of the host
\* pattern that matches, "en" when none does; the same on every call.
C20_LocaleResolution ==
  rs.pc = "locale" =>
    \A i \in DOMAIN rs.outs :
      /\ rs.override # <<>> => rs.outs[i] = LowerOverride(rs.override)
      /\ rs.override = <<>> => rs.outs[i] \in rs.locales
      /\ rs.outs[i] = rs.outs[1]

\* An upper-case override on a host whose pattern gives another locale,
\* resolved twice.
C20_Witness ==
  /\ rs.pc = "locale"
  /\ rs.host = <<"shop", ".", "fr">> /\ rs.override = <<"IT">>
  /\ Len(rs.outs) = 2 /\ rs.outs[2] = <<"it">>

\* The candidates of a locale: the region-qualified form, then the bare one.
CandidatesOf(locale) == <<locale \o <<"-">> \o locale, locale>>

\* C21: for every entity of the slice the lookups go through the candidate
\* locales in order, most specific first, and a lookup that fails or comes
\* back empty is followed by a lookup for the next candidate.
C21_CandidateFallback ==
  (hy.pc = "done" /\ hy.status = 200) =>
    \A i \in DOMAIN pm.items :
      LET c == CandidatesOf(hy.rq.locale)
          n == Len(pm.asked[i])
          usable == pm.answer[i] = "ok" /\ OrEmpty(pm.value[i].trs) # <<>>
      IN  /\ n >= 1 /\ n <= Len(c)
          /\ pm.asked[i] = SubSeq(c, 1, n)
          /\ ~usable => n = Len(c)

C23_LastWriteWins ==
  [][\A p \in Procs :
       (req[p].pc # "done" /\ req'[p].pc = "done" /\ req'[p].status = 200
          /\ ~req'[p].hit)
         => /\ req'[p].upstream
            /\ req'[p].key \in DOMAIN responseCache'
            /\ responseCache'[req'[p].key].body = req'[p].body
            /\ responseCache'[req'[p].key].expiresAt = ExpiresAt(req'[p].now)
            /\ \A q \in Procs \ {p} : req'[q] = req[q]]_vars

\* Two requests missed on one key, fetched on their own and were answered
\* 200 with different documents; the entry is the second writer's document.
C23_Witness ==
  \E p1, p2 \in Procs :
    /\ req[p1].pc = "done" /\ req[p2].pc = "done"
    /\ req[p1].key = req[p2].key
    /\ req[p1].status = 200 /\ req[p2].status = 200
    /\ ~req[p1].hit /\ ~req[p2].hit /\ req[p1].upstream /\ req[p2].upstream
    /\ req[p1].body # req[p2].body
    /\ responseCache[req[p1].key].body = req[p2].body

(* ------------- per-shop variant: /auth/callback and /image.xml ---------- *)
ShopA == <<"a.myshopify.com">>
ShopB == <<"b.myshopify.com">>

\* A shop parameter that is no host name: "a.myshopify.com|type=all".
ShopBar == ShopA \o <<"|", "type", "=", "all">>

IsHostName(shop) == \A i \in DOMAIN shop : shop[i] \notin {"|", "="}

BaseOAuth ==
  [host |-> <<"shop", ".", "fr">>, shop |-> ShopA, page |-> <<>>,
   per_page |-> <<"1">>, type |-> <<"products">>, prefer_host |-> <<>>,
   captions |-> <<>>, locale |-> <<>>, debug |-> <<>>, signed |-> TRUE]

\* Requests for two shops, and requests whose shop, type, host or locale
\* carries the characters the key is joined with.
QueriesOAuth ==
  {BaseOAuth,
   [BaseOAuth EXCEPT !.shop = ShopB],
   [BaseOAuth EXCEPT !.signed = FALSE],
   [BaseOAuth EXCEPT !.type = <<"all", "|", "type", "=", "x">>],
   [BaseOAuth EXCEPT !.shop = ShopBar, !.type = <<"x">>],
   [BaseOAuth EXCEPT !.host = <<"h", "|", "locale", "=", "x">>, !.locale = <<"y">>],
   [BaseOAuth EXCEPT !.host = <<"h">>, !.locale = <<"x", "|", "locale", "=", "y">>]}

\* const shop = String(req.query.shop || ""), and the other parameters
ParseOAuth(q) ==
  [f \in DOMAIN Parse(q) \cup {"shop"} |-> IF f = "shop" THEN q.shop ELSE Parse(q)[f]]

\* cacheKey({ route: "image.xml", host, shop, page, perPage, type, includeCaptions, preferHost, locale })
KeyPartsOAuth(r) ==
  [f \in DOMAIN KeyParts(r) \cup {"shop"} |-> IF f = "shop" THEN r.shop ELSE KeyParts(r)[f]]

\* !tokenEntry?.accessToken
HasToken(store, shop) == shop \in DOMAIN store /\ store[shop].accessToken # <<>>

\* `App not installed for ${shop}. Visit ${HOST}/auth?shop=${shop}`
InstallHint(shop) ==
  <<"App not installed for ">> \o shop \o <<". Visit ", "HOST", "/auth?shop=">> \o shop

\* The <urlset> of a shop for the requested type: its entries stand for the
\* nodes rendered from the shop's catalogs.
UrlSet(prm) ==
  [debugComment |-> <<>>,
   nodes |-> IF prm.type \in {<<"products">>, <<"collections">>, <<"all">>}
             THEN <<[shop |-> prm.shop, type |-> prm.type, page |-> prm.page]>>
             ELSE <<>>]

\* A connection before its request arrives.  route is the endpoint asked
\* for; installed records what the token check of /image.xml would find when
\* the request arrives.
IdleOAuth ==
  [pc |-> "idle", route |-> "none", q |-> BaseOAuth, p |-> ParseOAuth(BaseOAuth),
   key |-> <<>>, now |-> 0, status |-> 0, body |-> NoBody, text |-> <<>>,
   hit |-> FALSE, upstream |-> FALSE, installed |-> FALSE, code |-> <<>>]

\* responseCache.set(key, { body: xml, ... }); res.status(200).send(xml)
StoreAndSend(p, r) ==
  LET xml == UrlSet(r.p)
  IN  /\ responseCache' =
           CachePut(responseCache, r.key,
                    [body |-> xml, expiresAt |-> ExpiresAt(r.now),
                     writtenAt |-> now, madeFor |-> r.p])
      /\ req' = [req EXCEPT ![p] = [r EXCEPT !.pc = "done", !.status = 200,
                                             !.body = xml]]

\* app.get("/auth/callback"): up to the await of the token exchange
AuthCallback(p) ==
  /\ req[p].pc = "idle"
  /\ \E shop \in {<<>>, ShopA, ShopB, ShopBar}, code \in {<<>>, <<"code">>} :
       LET r == [IdleOAuth EXCEPT !.route = "callback", !.q.shop = shop,
                                  !.code = code]
       IN  req' = [req EXCEPT ![p] =
                     IF shop = <<>> \/ code = <<>>
                     THEN [r EXCEPT !.pc = "done", !.status = 400,
                                    !.text = <<"Missing shop/code">>]
                     ELSE [r EXCEPT !.pc = "exchange"]]
  /\ UNCHANGED <<responseCache, tokenStore, now, useSF, rs, catalog, walk, crawl,
                 sf, pm, hy>>

\* Answers of POST https://${shop}/admin/oauth/access_token: a shop that is
\* no host name gives no URL to fetch, and timedFetch rejects.
ExchangeAnswers(shop) ==
  IF IsHostName(shop) THEN {"ok", "notok", "reject"} ELSE {"reject"}

\* app.get("/auth/callback"): after the token exchange
TokenExchanged(p) ==
  /\ req[p].pc = "exchange"
  /\ \E ans \in ExchangeAnswers(req[p].q.shop) :
       /\ req' = [req EXCEPT ![p] =
                    [@ EXCEPT !.pc = "done", !.upstream = TRUE,
                              !.status = CASE ans = "ok" -> 200
                                           [] ans = "notok" -> 400
                                           [] OTHER -> 500]]
       /\ tokenStore' =
            IF ans = "ok"
            THEN CachePut(tokenStore, req[p].q.shop,
                          [accessToken |-> <<"token of ">> \o req[p].q.shop,
                           installedAt |-> now])
            ELSE tokenStore
  /\ UNCHANGED <<responseCache, now, useSF, rs, catalog, walk, crawl, sf, pm, hy>>

\* app.get("/image.xml"): signature, cache lookup, token check, and the
\* document at once when the type asks for no catalog
ImageArrive(p) ==
  /\ req[p].pc = "idle"
  /\ \E q \in QueriesOAuth :
       LET prm == ParseOAuth(q)
           key == cacheKey(KeyPartsOAuth(prm))
           found == key \in DOMAIN responseCache
           hit == IF found THEN responseCache[key] ELSE NoEntry
           r == [IdleOAuth EXCEPT !.route = "image", !.q = q, !.p = prm,
                                  !.key = key, !.now = now,
                                  !.installed = HasToken(tokenStore, prm.shop)]
       IN  IF ~q.signed
           THEN /\ req' = [req EXCEPT ![p] =
                             [IdleOAuth EXCEPT !.route = "image", !.q = q,
                                !.pc = "done", !.status = 401,
                                !.text = <<"Invalid signature">>]]
                /\ UNCHANGED responseCache
           ELSE IF found /\ IsFresh(hit, now)
           THEN /\ req' = [req EXCEPT ![p] =
                             [r EXCEPT !.pc = "done", !.status = 200,
                                       !.body = hit.body, !.hit = TRUE]]
                /\ UNCHANGED responseCache
           ELSE IF ~HasToken(tokenStore, prm.shop)
           THEN /\ req' = [req EXCEPT ![p] =
                             [r EXCEPT !.pc = "done", !.status = 403,
                                       !.text = InstallHint(prm.shop)]]
                /\ UNCHANGED responseCache
           ELSE IF AfterArrive(prm.type) = "finish"
           THEN StoreAndSend(p, r)
           ELSE /\ req' = [req EXCEPT ![p] = [r EXCEPT !.pc = "generate"]]
                /\ UNCHANGED responseCache
  /\ UNCHANGED <<tokenStore, now, useSF, rs, catalog, walk, crawl, sf, pm, hy>>

\* app.get("/image.xml"): the Admin API calls of the slices and of their
\* translations, then the document or the 500 of the catch
ImageGenerated(p) ==
  /\ req[p].pc = "generate"
  /\ LET r == [req[p] EXCEPT !.upstream = TRUE]
     IN  \/ StoreAndSend(p, r)
         \/ /\ req' = [req EXCEPT ![p] = [r EXCEPT !.pc = "done", !.status = 500]]
            /\ UNCHANGED responseCache
  /\ UNCHANGED <<tokenStore, now, useSF, rs, catalog, walk, crawl, sf, pm, hy>>

\* The response is out; the next request may arrive.
NextRequest(p) ==
  /\ req[p].pc = "done"
  /\ req' = [req EXCEPT ![p] = IdleOAuth]
  /\ UNCHANGED <<responseCache, tokenStore, now, useSF, rs, catalog, walk, crawl,
                 sf, pm, hy>>

InitOAuth ==
  /\ responseCache = <<>>
  /\ tokenStore = <<>>
  /\ now = 0
  /\ req = [p \in Procs |-> IdleOAuth]
  /\ useSF = FALSE
  /\ rs = NoResolve
  /\ catalog = <<>>
  /\ walk = NoWalk
  /\ crawl = NoCrawl
  /\ sf = NoSf
  /\ pm = NoPMap
  /\ hy = NoHydrate

NextOAuth ==
  \E p \in Procs :
    \/ AuthCallback(p) \/ TokenExchanged(p) \/ ImageArrive(p)
    \/ ImageGenerated(p) \/ NextRequest(p)

SpecOAuth == InitOAuth /\ [][NextOAuth]_vars

\* C24: a signed /image.xml request for a shop without a token is answered
\* 403 with the install hint, and nothing is fetched for it.
C24_NoTokenNoSitemap ==
  \A p \in Procs :
    (req[p].route = "image" /\ req[p].q.signed /\ ~req[p].installed)
      => /\ req[p].pc = "done"
         /\ req[p].status = 403
         /\ req[p].text = InstallHint(req[p].p.shop)
         /\ ~req[p].upstream

\* C29: two requests get the same key only if every field of the key has
\* the same value in both.
C29_KeyInjective ==
  \A p1, p2 \in Procs :
    (req[p1].route = "image" /\ req[p2].route = "image"
       /\ req[p1].key # <<>> /\ req[p1].key = req[p2].key)
      => KeyPartsOAuth(req[p1].p) = KeyPartsOAuth(req[p2].p)

(* --------------- gqlPagedSlice in two phases (skip, collect) ------------ *)
\* let after = null; let skipped = 0; const out = [];
\* full records whether every page so far held as many edges as asked for.
StartWalk001(first, offset, take) ==
  [pc |-> IF 0 < offset THEN "skip" ELSE IF 0 < take THEN "collect" ELSE "returned",
   first |-> first, offset |-> offset, take |-> take,
   after |-> 0, skipped |-> 0, out |-> <<>>, calls |-> 0, wants |-> <<>>,
   full |-> TRUE]

\* const want = Math.min(first, offset - skipped)
SkipWant_fixedBatch(w) == w.first
SkipWant(w) == Min(w.first, w.offset - w.skipped)

\* const need = take - out.length; const want = Math.min(first, need)
CollectWant(w) == Min(w.first, w.take - Len(w.out))

Want001(w) == IF w.pc = "skip" THEN SkipWant(w) ELSE CollectWant(w)

\* The collect loop starts, or ends at once: while (out.length < take)
ToCollect(w) == [w EXCEPT !.pc = IF Len(w.out) < w.take THEN "collect" ELSE "returned"]

\* One iteration of the skip loop.
SkipPhase(w, resp) ==
  IF ~resp.ok THEN [w EXCEPT !.pc = "threw", !.out = <<>>]
  ELSE IF resp.edges = <<>> THEN ToCollect(w)
  ELSE
    LET w2 == [w EXCEPT !.skipped = @ + Len(resp.edges),
                        !.after = resp.edges[Len(resp.edges)].cursor]
    IN  IF ~resp.hasNextPage \/ ~(w2.skipped < w2.offset) THEN ToCollect(w2) ELSE w2

\* for (const e of edges) { out.push(e.node); if (out.length >= take) break; }
Collected(out, edges, take) == out \o SubSeq(edges, 1, Min(Len(edges), take - Len(out)))

\* One iteration of the collect loop.
CollectPhase(w, resp) ==
  IF ~resp.ok THEN [w EXCEPT !.pc = "threw", !.out = <<>>]
  ELSE IF resp.edges = <<>> THEN [w EXCEPT !.pc = "returned"]
  ELSE
    LET nodes == [i \in DOMAIN resp.edges |-> resp.edges[i].node]
        w2 == [w EXCEPT !.out = Collected(@, nodes, w.take),
                        !.after = resp.edges[Len(resp.edges)].cursor]
    IN  IF ~resp.hasNextPage \/ ~(Len(w2.out) < w2.take)
        THEN [w2 EXCEPT !.pc = "returned"] ELSE w2

\* One listing call of either phase and the loop body that consumes it.
WalkStep001(w, resp) ==
  LET w1 == [w EXCEPT !.calls = @ + 1, !.wants = Append(@, Want001(w)),
                      !.full = @ /\ resp.ok /\ Len(resp.edges) = Want001(w)]
  IN  IF w.pc = "skip" THEN SkipPhase(w1, resp) ELSE CollectPhase(w1, resp)

\* The upstream answers with at most as many edges as the call asks for.
WalkCall001 ==
  /\ walk.pc \in {"skip", "collect"}
  /\ \E resp \in ListingResponses(catalog, Want001(walk), walk.after) :
       walk' = WalkStep001(walk, resp)
  /\ UNCHANGED <<catalog, crawl, sf, pm, hy, responseCache, now, req, useSF, rs,
                 tokenStore>>

InitTwoPhase ==
  /\ catalog \in Catalogs
  /\ \E first \in Firsts, offset \in 0..MaxOffset, take \in 1..MaxTake :
       walk = StartWalk001(first, offset, take)
  /\ crawl = NoCrawl
  /\ sf = NoSf
  /\ pm = NoPMap
  /\ hy = NoHydrate
  /\ NoServer

NextTwoPhase == WalkCall001

SpecTwoPhase == InitTwoPhase /\ [][NextTwoPhase]_vars

Ceil(a, b) == (a + b - 1) \div b

\* C25: with at least offset + take entities upstream and full pages, the
\* two-phase walk returns after ceil((offset + take) / first) listing calls.
C25_MinimumCalls ==
  (walk.pc = "returned" /\ walk.full /\ Len(catalog) >= walk.offset + walk.take)
    => walk.calls = Ceil(walk.offset + walk.take, walk.first)

AnyResponses(after) ==
  {[ok |-> ok, hasNextPage |-> more,
    edges |-> [i \in 1..n |-> [cursor |-> after + i, node |-> after + i]]]
     : ok \in BOOLEAN, more \in BOOLEAN, n \in 0..MaxFirst}

WalkCallAny ==
  /\ walk.pc = "loop"
  /\ \E resp \in AnyResponses(walk.after) : walk' = WalkStep(walk, resp)
  /\ UNCHANGED <<catalog, crawl, sf, pm, hy, responseCache, now, req, useSF, rs,
                 tokenStore>>

InitAnyUpstream ==
  /\ catalog = <<>>
  /\ \E first \in Firsts, offset \in 0..MaxOffset, take \in 1..MaxTake :
       walk = StartWalk(first, offset, take)
  /\ crawl = NoCrawl
  /\ sf = NoSf
  /\ pm = NoPMap
  /\ hy = NoHydrate
  /\ NoServer

NextAnyUpstream == WalkCallAny

SpecAnyUpstream == InitAnyUpstream /\ [][NextAnyUpstream]_vars

\* C27: the walk makes at most offset + take listing calls, and while it is
\* still looping it has made fewer: each page that does not end the loop
\* adds to skipped or to out.
C27_WalkTerminates ==
  /\ walk.calls <= walk.offset + walk.take
  /\ walk.pc = "loop" =>
       /\ walk.calls <= walk.skipped + Len(walk.out)
       /\ walk.skipped <= walk.offset
       /\ Len(walk.out) < walk.take

\* The has-more flag never turned false and every page held one entity: the
\* walk stopped after offset + take calls.
C27_Witness ==
  /\ walk.pc = "returned"
  /\ walk.offset >= 2 /\ walk.take >= 2
  /\ walk.calls = walk.offset + walk.take
  /\ Len(walk.out) = walk.take

\* C28: a write to responseCache never replaces an entry by one that expires
\* earlier.
C28_ExpiryMonotone ==
  [][\A k \in DOMAIN responseCache \cap DOMAIN responseCache' :
       responseCache'[k].expiresAt >= responseCache[k].expiresAt]_vars

(* ------------------- the pages of the three feed types ------------------ *)
\* Pages 1..3 of every type, for per_page 1 and 2.
QueriesPages ==
  {[BaseQuery EXCEPT !.type = t, !.page = pg, !.per_page = k]
     : t \in {<<"products">>, <<"collections">>, <<"ALL">>},
       pg \in {<<>>, <<"2">>, <<"3">>}, k \in {<<"1">>, <<"2">>}}

ArrivePages(p) ==
  /\ req[p].pc = "idle"
  /\ \E q \in QueriesPages : ArriveWith(p, q, Parse(q), cacheKey(KeyParts(Parse(q))))
  /\ UNCHANGED <<now, useSF, nonSrvVars>>

NextPages ==
  \E p \in Procs :
    \/ ArrivePages(p) \/ ProductsListed(p) \/ ProductsHydrated(p)
    \/ CollectionsListed(p) \/ CollectionsHydrated(p)

SpecPages == Init /\ [][NextPages]_vars

\* The entities of page pg of a catalog, k per page.
PageOf(cat, pg, k) == JsSlice(cat, (pg - 1) * k, pg * k)

ProductLocs(ps, host) ==
  LET withImages == SelectSeq(ps, LAMBDA e : e.images # <<>>)
  IN  [i \in DOMAIN withImages |-> pageUrlForProduct(host, withImages[i].handle)]

CollectionLocs(cs, host) ==
  LET withImage == SelectSeq(cs, LAMBDA e : e.image.present)
  IN  [i \in DOMAIN withImage |-> pageUrlForCollection(host, withImage[i].handle)]

\* The page URLs of the <url> nodes of a document, in document order.
DocLocs(body) == [i \in DOMAIN body.nodes |-> body.nodes[i].loc]

SamePage(r1, r2) ==
  /\ r1.p.page = r2.p.page /\ r1.p.perPage = r2.p.perPage /\ r1.p.host = r2.p.host

Answered(p) == req[p].pc = "done" /\ req[p].status = 200

\* C30: page pg of type=all holds the products with images of page pg of
\* the product catalog followed by the collections with an image of page pg
\* of the collection catalog, that is what the type=products and the
\* type=collections documents of the same page hold; the pages of a catalog
\* are disjoint and cover it, so each entity is in exactly one of them.
C30_AllCoversBoth ==
  /\ \A p \in Procs :
       Answered(p) =>
         LET r == req[p]
             ps == IF r.p.type \in {<<"products">>, <<"all">>}
                   THEN ProductLocs(PageOf(ProductCatalog, r.p.page, r.p.perPage), r.p.host)
                   ELSE <<>>
             cs == IF r.p.type \in {<<"collections">>, <<"all">>}
                   THEN CollectionLocs(PageOf(CollectionCatalog, r.p.page, r.p.perPage),
                                       r.p.host)
                   ELSE <<>>
         IN  DocLocs(r.body) = ps \o cs
  /\ \A p1, p2 \in Procs :
       (Answered(p1) /\ Answered(p2) /\ req[p1].p.type = <<"all">>
          /\ SamePage(req[p1], req[p2]))
         => /\ req[p2].p.type = <<"products">> =>
                 /\ Len(DocLocs(req[p2].body)) <= Len(DocLocs(req[p1].body))
                 /\ DocLocs(req[p2].body)
                      = SubSeq(DocLocs(req[p1].body), 1, Len(DocLocs(req[p2].body)))
            /\ req[p2].p.type = <<"collections">> =>
                 LET n1 == Len(DocLocs(req[p1].body))
                     n2 == Len(DocLocs(req[p2].body))
                 IN  /\ n2 <= n1
                     /\ DocLocs(req[p2].body) = SubSeq(DocLocs(req[p1].body), n1 - n2 + 1, n1)
  /\ \A p1, p2 \in Procs :
       (Answered(p1) /\ Answered(p2) /\ req[p1].p.type = <<"all">>
          /\ req[p2].p.type = <<"all">> /\ req[p1].p.perPage = req[p2].p.perPage
          /\ req[p1].p.page # req[p2].p.page)
         => \A i \in DOMAIN req[p1].body.nodes, j \in DOMAIN req[p2].body.nodes :
              req[p1].body.nodes[i].loc # req[p2].body.nodes[j].loc

\* Page 1 of type=all with two entities per page holds two products and a
\* collection, next to the type=collections document of the same page.
C30_Witness ==
  \E p1, p2 \in Procs :
    /\ Answered(p1) /\ Answered(p2) /\ SamePage(req[p1], req[p2])
    /\ req[p1].p.type = <<"all">> /\ req[p2].p.type = <<"collections">>
    /\ ~req[p1].hit /\ ~req[p2].hit
    /\ Len(req[p1].body.nodes) = 3 /\ Len(req[p2].body.nodes) = 1

====
